---- MODULE Spec2Model ----
(***************************************************************************)
(* Medallion pipeline of Big-Data-IIM: the silver cleaning stage           *)
(* (flows/silver_ingestion.py) and the gold aggregation stage              *)
(* (flows/gold_ingestion.py), as state machines over small tables.         *)
(*                                                                         *)
(* A raw cell read from a CSV file is a record: kind "null" (NaN), "num"   *)
(* (a number, integer part int and first decimal digit frac), "str" (a     *)
(* string, chars its characters) or "date" (a parsable date, int its day   *)
(* number, day 1 = 2024-01-01).  A cleaned cell is a plain value; every    *)
(* string is the sequence of its characters.                               *)
(***************************************************************************)
EXTENDS Integers, Sequences, FiniteSets, TLC

VARIABLES
    bronze_clients,      \* clients.csv in the bronze bucket (raw rows)
    bronze_purchases,    \* purchases.csv in the bronze bucket (raw rows)
    pc,                  \* position of the silver flow
    df_clients_raw,      \* table returned by load_data_from_bronze("clients.csv")
    df_purchases_raw,    \* table returned by load_data_from_bronze("purchases.csv")
    df_clients_clean,    \* table returned by clean_clients_data
    clients_stats,       \* stats returned by clean_clients_data
    valid_client_ids,    \* set handed to clean_purchases_data
    df_purchases_clean,  \* table returned by clean_purchases_data
    purchases_stats,     \* stats returned by clean_purchases_data
    silver,              \* silver bucket: object name -> table or NoObject
    err,                 \* exception that ended the silver flow, or "none"
    fact_table,          \* fact table handed to the gold aggregation tasks
    gold_pc,             \* position of the gold aggregation tasks
    kpi_global,          \* result of aggregate_kpi_global
    client_behavior,     \* result of aggregate_client_behavior
    gold_err,            \* exception raised by a gold task, or "none"
    agg_country,         \* result of aggregate_by_country
    agg_product,         \* result of aggregate_by_product
    agg_monthly,         \* result of aggregate_by_time_monthly
    spark_gold_pc,       \* position of the Spark gold tasks
    product_stats,       \* table written by build_product_stats (Spark)
    monthly_sales,       \* table written by build_monthly_sales (Spark)
    spark_pc,            \* position of the Spark silver flow
    spark_clients_clean, \* table returned by the Spark clean_clients_data
    spark_clients_stats, \* stats returned by the Spark clean_clients_data
    spark_valid_ids,     \* valid_client_ids of the Spark flow
    spark_purchases_clean, \* table returned by the Spark clean_purchases_data
    spark_purchases_stats, \* stats returned by the Spark clean_purchases_data
    spark_err,           \* exception that ended the Spark silver flow, or "none"
    main_pc,             \* position of run_pipeline.main
    started,             \* the stages main has started, in order
    failed,              \* the stages whose command returned a failure
    gold,                \* gold bucket: object name -> table or NoObject
    mongo,               \* MongoDB database: collection name -> documents
    mongo_pc,            \* position of the MongoDB ingestion flow
    results,             \* results of the MongoDB load tasks, in order
    now,                 \* the clock, in ticks
    runs,                \* the flows started so far, in order
    prev,                \* the stores as they were when the last one started
    task_run             \* the task that the flow run in progress is at

silver_vars == <<bronze_clients, bronze_purchases, pc, df_clients_raw,
                 df_purchases_raw, df_clients_clean,
                 clients_stats, valid_client_ids, df_purchases_clean,
                 purchases_stats, silver, err>>
gold_vars == <<fact_table, gold_pc, kpi_global, client_behavior, gold_err,
               agg_country, agg_product, agg_monthly, spark_gold_pc,
               product_stats, monthly_sales>>
agg_results == <<agg_country, agg_product, agg_monthly>>
spark_gold_vars == <<spark_gold_pc, product_stats, monthly_sales>>
silver_locals == <<pc, df_clients_raw, df_purchases_raw, df_clients_clean,
                   clients_stats, valid_client_ids, df_purchases_clean,
                   purchases_stats, err>>
spark_silver_vars == <<spark_pc, spark_clients_clean, spark_clients_stats,
                       spark_valid_ids, spark_purchases_clean,
                       spark_purchases_stats, spark_err>>
main_vars == <<main_pc, started, failed>>
mongo_vars == <<mongo, mongo_pc, results, now>>
run_vars == <<runs, prev, task_run>>
store_vars == <<gold, mongo_vars, run_vars>>
rest_vars == <<main_vars, store_vars>>
vars == <<silver_vars, gold_vars, spark_silver_vars, rest_vars>>

----------------------------------------------------------------------------
(* Cells and generic table helpers *)

Null == [kind |-> "null", int |-> 0, frac |-> 0, chars |-> <<>>]
Num(i, f) == [kind |-> "num", int |-> i, frac |-> f, chars |-> <<>>]
Str(s) == [kind |-> "str", int |-> 0, frac |-> 0, chars |-> s]
Date(d) == [kind |-> "date", int |-> d, frac |-> 0, chars |-> <<>>]

\* A table or stats record that no call has returned yet
NoTable == <<>>
NoStats == [initial_rows |-> -1]

\* An object of a bucket: absent, or present with its rows
NoObject == [present |-> FALSE, rows |-> <<>>]
Object(df) == [present |-> TRUE, rows |-> df]

\* All sequences over S of length 0..n
SeqsUpTo(S, n) == UNION {[1..k -> S] : k \in 0..n}

\* pandas isna(): NaN in a cell
IsNull(c) == c.kind = "null"

\* DataFrame.dropna(subset=cols): keep the rows with no null in cols
DropNa(df, cols) == SelectSeq(df, LAMBDA r : \A c \in cols : ~IsNull(r[c]))

\* Series.fillna(v)
FillNa(c, v) == IF IsNull(c) THEN Str(v) ELSE c

Unknown == <<"U", "n", "k", "n", "o", "w", "n">>
UnknownProduct == Unknown \o <<" ", "P", "r", "o", "d", "u", "c", "t">>

\* pd.to_datetime(errors="coerce"): a date parses, anything else is NaT
ToDatetime(c) == IF c.kind = "date" THEN c ELSE Null

\* pd.Timestamp.now(), as a day number
Today == 300

\* Series.astype(int) raises ValueError when a value is not a number
AsTypeRaises(df, col) == \E i \in 1..Len(df) : df[i][col].kind # "num"

\* astype(int) of one number: the fraction is cut (non-negative values)
AsInt(c) == c.int

\* DataFrame.drop_duplicates(subset=[col], keep="first"): a row stays when no
\* earlier row has its value in col
RECURSIVE DropDuplicatesFrom(_, _, _)
DropDuplicatesFrom(df, col, i) ==
    IF i > Len(df) THEN <<>>
    ELSE (IF \A j \in 1..(i - 1) : df[j][col] # df[i][col] THEN <<df[i]>> ELSE <<>>)
         \o DropDuplicatesFrom(df, col, i + 1)

\* Variant: only a row equal in col to the row just before it is dropped
RECURSIVE DropDuplicatesAdjacentFrom(_, _, _)
DropDuplicatesAdjacentFrom(df, col, i) ==
    IF i > Len(df) THEN <<>>
    ELSE (IF i = 1 \/ df[i - 1][col] # df[i][col] THEN <<df[i]>> ELSE <<>>)
         \o DropDuplicatesAdjacentFrom(df, col, i + 1)

DropDuplicatesAdjacent(df, col) == DropDuplicatesAdjacentFrom(df, col, 1)

DropDuplicates(df, col) == DropDuplicatesFrom(df, col, 1)

\* DataFrame.sort_values(col) on an integer column: stable insertion sort
RECURSIVE InsertSorted(_, _, _)
InsertSorted(s, r, col) ==
    IF s = <<>> THEN <<r>>
    ELSE IF s[Len(s)][col] <= r[col] THEN Append(s, r)
    ELSE Append(InsertSorted(SubSeq(s, 1, Len(s) - 1), r, col), s[Len(s)])

RECURSIVE SortValuesFrom(_, _, _)
SortValuesFrom(df, i, col) ==
    IF i = 0 THEN <<>>
    ELSE InsertSorted(SortValuesFrom(df, i - 1, col), df[i], col)

SortValues(df, col) == SortValuesFrom(df, Len(df), col)

\* Whether a Python "a / b" on two ints raises ZeroDivisionError
PyDivRaises(b) == b = 0

----------------------------------------------------------------------------
(* Email normalisation and validation *)

UpperToLower == [c \in {"A", "X", "C", "O", "M"} |->
                    CASE c = "A" -> "a" [] c = "X" -> "x" [] c = "C" -> "c"
                      [] c = "O" -> "o" [] c = "M" -> "m"]

\* str.lower()
StrLower(s) == [i \in 1..Len(s) |->
                   IF s[i] \in DOMAIN UpperToLower THEN UpperToLower[s[i]] ELSE s[i]]

\* str.strip(): drop leading and trailing blanks
RECURSIVE StripLeft(_)
StripLeft(s) == IF s # <<>> /\ Head(s) = " " THEN StripLeft(Tail(s)) ELSE s

RECURSIVE StripRight(_)
StripRight(s) ==
    IF s # <<>> /\ s[Len(s)] = " " THEN StripRight(SubSeq(s, 1, Len(s) - 1)) ELSE s

StrStrip(s) == StripRight(StripLeft(s))

Letters == {"a", "c", "d", "m", "o", "p", "u", "x", "A", "C", "M", "O", "X"}
LocalChars == Letters \cup {".", "_", "%", "+", "-"}
DomainChars == Letters \cup {".", "-"}

AllIn(s, S) == \A i \in 1..Len(s) : s[i] \in S

\* str.match(r'^[a-zA-Z0-9._%+-]+@[a-zA-Z0-9.-]+\.[a-zA-Z]{2,}$')
EmailMatch(s) ==
    \E a \in 1..Len(s) : \E d \in (a + 1)..Len(s) :
        /\ s[a] = "@"
        /\ s[d] = "."
        /\ a > 1 /\ AllIn(SubSeq(s, 1, a - 1), LocalChars)
        /\ d > a + 1 /\ AllIn(SubSeq(s, a + 1, d - 1), DomainChars)
        /\ Len(s) - d >= 2 /\ AllIn(SubSeq(s, d + 1, Len(s)), Letters)

NormalizeEmail(c) == StrLower(StrStrip(c.chars))

----------------------------------------------------------------------------
(* clean_clients_data *)

ClientsStep1(df) == DropNa(df, {"client_id", "email"})

ClientsStep2(df) ==
    [i \in 1..Len(df) |->
        [df[i] EXCEPT !.name = FillNa(@, Unknown), !.country = FillNa(@, Unknown)]]

ClientsStep3Parse(df) ==
    DropNa([i \in 1..Len(df) |->
               [df[i] EXCEPT !.date_inscription = ToDatetime(@)]],
           {"date_inscription"})

ClientsStep3Future(df) == SelectSeq(df, LAMBDA r : r.date_inscription.int <= Today)

ClientsStep4(df) ==
    SelectSeq([i \in 1..Len(df) |-> [df[i] EXCEPT !.email = NormalizeEmail(@)]],
              LAMBDA r : EmailMatch(r.email))

ClientsStep5(df) ==
    [i \in 1..Len(df) |->
        [client_id |-> AsInt(df[i].client_id),
         name |-> StrStrip(df[i].name.chars),
         email |-> df[i].email,
         country |-> StrStrip(df[i].country.chars),
         date_inscription |-> df[i].date_inscription.int]]

\* Variant: by email first, then by client_id
ClientsStep6EmailFirst(df) ==
    DropDuplicates(DropDuplicates(df, "email"), "client_id")

\* First by client_id, then by email
ClientsStep6(df) ==
    DropDuplicates(DropDuplicates(df, "client_id"), "email")

ClientsStep7(df) == SortValues(df, "client_id")

\* Number of rows counted in removed_invalid_dates
ClientsInvalidDates(s1, s3p, s3f) == Len(s1) - Len(s3p)

\* The whole function: [df, stats, raised]
clean_clients_data(df) ==
    LET s1 == ClientsStep1(df)
        s2 == ClientsStep2(s1)
        s3p == ClientsStep3Parse(s2)
        s3f == ClientsStep3Future(s3p)
        s4 == ClientsStep4(s3f)
    IN  IF AsTypeRaises(s4, "client_id")
        THEN [df |-> NoTable, stats |-> NoStats, raised |-> "ValueError"]
        ELSE
        LET s5 == ClientsStep5(s4)
            s6 == ClientsStep6(s5)
            s7 == ClientsStep7(s6)
            stats == [initial_rows |-> Len(df),
                      removed_null_critical |-> Len(df) - Len(s1),
                      removed_duplicates |-> Len(s5) - Len(s6),
                      removed_invalid_dates |-> ClientsInvalidDates(s1, s3p, s3f),
                      removed_invalid_emails |-> Len(s3f) - Len(s4),
                      final_rows |-> Len(s7),
                      data_loss_percentage |->
                          [num |-> (Len(df) - Len(s7)) * 100, den |-> Len(df)]]
        IN  IF PyDivRaises(Len(df))
            THEN [df |-> NoTable, stats |-> NoStats, raised |-> "ZeroDivisionError"]
            ELSE [df |-> s7, stats |-> stats, raised |-> "none"]

----------------------------------------------------------------------------
(* clean_purchases_data *)

\* astype(float) of one number (the amounts of this model are whole numbers)
AsFloat(c) == c.int

PurchasesStep1(df) ==
    DropNa(df, {"purchase_id", "client_id", "amount", "date_purchase"})

PurchasesStep2(df) ==
    [i \in 1..Len(df) |-> [df[i] EXCEPT !.product = FillNa(@, UnknownProduct)]]

PurchasesStep3Parse(df) ==
    DropNa([i \in 1..Len(df) |-> [df[i] EXCEPT !.date_purchase = ToDatetime(@)]],
           {"date_purchase"})

PurchasesStep3Future(df) == SelectSeq(df, LAMBDA r : r.date_purchase.int <= Today)

PurchasesStep4Raises(df) ==
    \/ AsTypeRaises(df, "purchase_id")
    \/ AsTypeRaises(df, "client_id")
    \/ AsTypeRaises(df, "amount")

PurchasesStep4(df) ==
    [i \in 1..Len(df) |->
        [purchase_id |-> AsInt(df[i].purchase_id),
         client_id |-> AsInt(df[i].client_id),
         amount |-> AsFloat(df[i].amount),
         product |-> StrStrip(df[i].product.chars),
         date_purchase |-> df[i].date_purchase.int]]

\* Variant: zero passes
ValidAmountOrZero(a) == a >= 0

\* df_clean["amount"] > 0
ValidAmount(a) == a > 0

PurchasesStep5(df) == SelectSeq(df, LAMBDA r : ValidAmount(r.amount))

\* Variant: no filter on the client
PurchasesStep6Unfiltered(df, valid) == df

\* df_clean["client_id"].isin(valid_client_ids)
PurchasesStep6(df, valid) == SelectSeq(df, LAMBDA r : r.client_id \in valid)

\* Series.quantile(k/4), linear interpolation, times 4 (so that it is an integer):
\* position (n-1)*k/4 in the sorted amounts.  NaN on an empty series is not a number:
\* the caller never compares against it.
Quantile4(df, k) ==
    LET sorted == SortValues(df, "amount")
        pos4 == (Len(df) - 1) * k
        lo == pos4 \div 4
        r == pos4 % 4
    IN  IF r = 0 THEN 4 * sorted[lo + 1].amount
        ELSE (4 - r) * sorted[lo + 1].amount + r * sorted[lo + 2].amount

\* The IQR multiple of the outlier bounds
IqrFactor == 3

\* Four times lower_bound and upper_bound = Q1 - 3*IQR, Q3 + 3*IQR
Bounds4(df) ==
    LET q1 == Quantile4(df, 1)
        q3 == Quantile4(df, 3)
        iqr == q3 - q1
    IN  [lower |-> q1 - IqrFactor * iqr, upper |-> q3 + IqrFactor * iqr]

\* (amount >= lower_bound) & (amount <= upper_bound)
WithinBounds(a, b) == 4 * a >= b.lower /\ 4 * a <= b.upper

\* Variant: only the upper bound is applied
PurchasesStep7UpperOnly(df) ==
    IF df = <<>> THEN <<>>
    ELSE LET b == Bounds4(df)
         IN  SelectSeq(df, LAMBDA r : 4 * r.amount <= b.upper)

\* Step 7: on an empty table the bounds are NaN and there is nothing to compare
PurchasesStep7(df) ==
    IF df = <<>> THEN <<>>
    ELSE LET b == Bounds4(df)
         IN  SelectSeq(df, LAMBDA r : WithinBounds(r.amount, b))

\* float("inf"), which read_csv parses from "inf" or from a number too large for
\* a float: it stands above every other amount
Inf == 1000000

HasInf(df) == \E i \in 1..Len(df) : df[i].amount = Inf

\* The quantile k/4 is interpolated from an infinite amount: it is inf or NaN
TouchesInf(df, k) ==
    LET sorted == SortValues(df, "amount")
        pos4 == (Len(df) - 1) * k
        lo == pos4 \div 4
    IN  \/ sorted[lo + 1].amount = Inf
        \/ pos4 % 4 # 0 /\ sorted[lo + 2].amount = Inf

\* The quantile k/4 falls on a finite amount whose upper neighbour is infinite: it
\* is that amount, or NaN where the interpolation multiplies inf by 0
BesideInf(df, k) ==
    LET sorted == SortValues(df, "amount")
        pos4 == (Len(df) - 1) * k
        lo == pos4 \div 4
    IN  /\ ~TouchesInf(df, k)
        /\ pos4 % 4 = 0
        /\ lo + 2 <= Len(df)
        /\ sorted[lo + 2].amount = Inf

\* The tables that step 7 can leave.  With an infinite amount: when Q1 is inf or
\* NaN so is Q3, IQR = inf - inf is NaN, both bounds are NaN and no row passes a
\* comparison; when only Q3 is inf, IQR is inf, the bounds are -inf and inf and
\* every row passes; when a quartile is NaN no row passes.
PurchasesStep7Outcomes(df) ==
    IF ~HasInf(df) THEN {PurchasesStep7(df)}
    ELSE IF TouchesInf(df, 1) THEN {<<>>}
    ELSE (IF TouchesInf(df, 3) THEN {df} ELSE {PurchasesStep7(df)})
         \cup (IF TouchesInf(df, 3) \/ BesideInf(df, 1) \/ BesideInf(df, 3)
               THEN {<<>>} ELSE {})

\* Variant: step 8 removes nothing
PurchasesStep8KeepsAll(df) == df

\* Step 8: the first row of each purchase_id is kept
PurchasesStep8(df) == DropDuplicates(df, "purchase_id")

PurchasesStep9(df) == SortValues(df, "purchase_id")

\* Number of rows counted in removed_invalid_dates
PurchasesInvalidDates(s1, s3p, s3f) == Len(s1) - Len(s3p)

\* The table that enters the outlier step (steps 1 to 6), when no step raises
PurchasesBeforeOutliers(df, valid) ==
    PurchasesStep6(
        PurchasesStep5(
            PurchasesStep4(
                PurchasesStep3Future(
                    PurchasesStep3Parse(PurchasesStep2(PurchasesStep1(df)))))),
        valid)

\* Steps 8 and 9 and the stats, when step 7 has left the table s7
PurchasesResult(df, valid, s7) ==
    LET s1 == PurchasesStep1(df)
        s2 == PurchasesStep2(s1)
        s3p == PurchasesStep3Parse(s2)
        s3f == PurchasesStep3Future(s3p)
        s4 == PurchasesStep4(s3f)
        s5 == PurchasesStep5(s4)
        s6 == PurchasesStep6(s5, valid)
        s8 == PurchasesStep8(s7)
        s9 == PurchasesStep9(s8)
        stats == [initial_rows |-> Len(df),
                  removed_null_critical |-> Len(df) - Len(s1),
                  removed_duplicates |-> Len(s7) - Len(s8),
                  removed_invalid_dates |-> PurchasesInvalidDates(s1, s3p, s3f),
                  removed_invalid_amounts |-> Len(s4) - Len(s5),
                  removed_invalid_clients |-> Len(s5) - Len(s6),
                  removed_outliers |-> Len(s6) - Len(s7),
                  final_rows |-> Len(s9),
                  data_loss_percentage |->
                      [num |-> (Len(df) - Len(s9)) * 100, den |-> Len(df)]]
    IN  IF PyDivRaises(Len(df))
        THEN [df |-> NoTable, stats |-> NoStats, raised |-> "ZeroDivisionError"]
        ELSE [df |-> s9, stats |-> stats, raised |-> "none"]

\* The astype of step 4 raises on the rows that steps 1 to 3 leave
PurchasesRaiseAtStep4(df) ==
    PurchasesStep4Raises(
        PurchasesStep3Future(PurchasesStep3Parse(PurchasesStep2(PurchasesStep1(df)))))

\* The whole function on finite amounts: [df, stats, raised]
clean_purchases_data(df, valid) ==
    IF PurchasesRaiseAtStep4(df)
    THEN [df |-> NoTable, stats |-> NoStats, raised |-> "ValueError"]
    ELSE PurchasesResult(df, valid,
                         PurchasesStep7(PurchasesBeforeOutliers(df, valid)))

\* The whole function: the results it can return
clean_purchases_results(df, valid) ==
    IF PurchasesRaiseAtStep4(df)
    THEN {[df |-> NoTable, stats |-> NoStats, raised |-> "ValueError"]}
    ELSE {PurchasesResult(df, valid, s7) :
             s7 \in PurchasesStep7Outcomes(PurchasesBeforeOutliers(df, valid))}

----------------------------------------------------------------------------
(* quality_check_final, save_to_silver and silver_transformation_flow *)

\* df.duplicated().sum(): the rows equal in every column to an earlier row
Duplicated(df) ==
    Cardinality({i \in 1..Len(df) : \E j \in 1..(i - 1) : df[j] = df[i]})

\* Variant: the metrics are reported and nothing is asserted
QualityCheckOnlyReports(df) == TRUE

\* The assert of quality_check_final
QualityCheckFinalPasses(df) == Duplicated(df) = 0

\* set(df_clients_clean["client_id"].unique())
ClientIdSet(df) == {df[i].client_id : i \in 1..Len(df)}

Raise(e) == /\ pc' = "failed"
            /\ err' = e

LoadClients ==
    /\ pc = "load_clients"
    /\ df_clients_raw' = bronze_clients
    /\ pc' = "check_initial_clients"
    /\ UNCHANGED <<bronze_clients, bronze_purchases, df_purchases_raw,
                   df_clients_clean, clients_stats, valid_client_ids,
                   df_purchases_clean, purchases_stats, silver, err, gold_vars,
                   spark_silver_vars, rest_vars>>

\* quality_check_initial only reports; its metrics are not kept here
CheckInitialClients ==
    /\ pc = "check_initial_clients"
    /\ pc' = "clean_clients"
    /\ UNCHANGED <<bronze_clients, bronze_purchases, df_clients_raw,
                   df_purchases_raw, df_clients_clean, clients_stats,
                   valid_client_ids, df_purchases_clean, purchases_stats,
                   silver, err, gold_vars,
                   spark_silver_vars, rest_vars>>

CleanClients ==
    /\ pc = "clean_clients"
    /\ LET res == clean_clients_data(df_clients_raw)
       IN  IF res.raised # "none"
           THEN /\ Raise(res.raised)
                /\ UNCHANGED <<df_clients_clean, clients_stats>>
           ELSE /\ df_clients_clean' = res.df
                /\ clients_stats' = res.stats
                /\ pc' = "check_final_clients"
                /\ UNCHANGED err
    /\ UNCHANGED <<bronze_clients, bronze_purchases, df_clients_raw,
                   df_purchases_raw, valid_client_ids, df_purchases_clean,
                   purchases_stats, silver, gold_vars,
                   spark_silver_vars, rest_vars>>

CheckFinalClients ==
    /\ pc = "check_final_clients"
    /\ IF QualityCheckFinalPasses(df_clients_clean)
       THEN pc' = "save_clients" /\ UNCHANGED err
       ELSE Raise("AssertionError")
    /\ UNCHANGED <<bronze_clients, bronze_purchases, df_clients_raw,
                   df_purchases_raw, df_clients_clean, clients_stats,
                   valid_client_ids, df_purchases_clean, purchases_stats,
                   silver, gold_vars,
                   spark_silver_vars, rest_vars>>

\* save_to_silver(df_clients_clean, "clients"), then valid_client_ids
SaveClients ==
    /\ pc = "save_clients"
    /\ silver' = [silver EXCEPT !.clients = Object(df_clients_clean)]
    /\ valid_client_ids' = ClientIdSet(df_clients_clean)
    /\ pc' = "load_purchases"
    /\ UNCHANGED <<bronze_clients, bronze_purchases, df_clients_raw,
                   df_purchases_raw, df_clients_clean, clients_stats,
                   df_purchases_clean, purchases_stats, err, gold_vars,
                   spark_silver_vars, rest_vars>>

LoadPurchases ==
    /\ pc = "load_purchases"
    /\ df_purchases_raw' = bronze_purchases
    /\ pc' = "check_initial_purchases"
    /\ UNCHANGED <<bronze_clients, bronze_purchases, df_clients_raw,
                   df_clients_clean, clients_stats, valid_client_ids,
                   df_purchases_clean, purchases_stats, silver, err, gold_vars,
                   spark_silver_vars, rest_vars>>

CheckInitialPurchases ==
    /\ pc = "check_initial_purchases"
    /\ pc' = "clean_purchases"
    /\ UNCHANGED <<bronze_clients, bronze_purchases, df_clients_raw,
                   df_purchases_raw, df_clients_clean, clients_stats,
                   valid_client_ids, df_purchases_clean, purchases_stats,
                   silver, err, gold_vars,
                   spark_silver_vars, rest_vars>>

CleanPurchases ==
    /\ pc = "clean_purchases"
    /\ \E res \in clean_purchases_results(df_purchases_raw, valid_client_ids) :
           IF res.raised # "none"
           THEN /\ Raise(res.raised)
                /\ UNCHANGED <<df_purchases_clean, purchases_stats>>
           ELSE /\ df_purchases_clean' = res.df
                /\ purchases_stats' = res.stats
                /\ pc' = "check_final_purchases"
                /\ UNCHANGED err
    /\ UNCHANGED <<bronze_clients, bronze_purchases, df_clients_raw,
                   df_purchases_raw, df_clients_clean, clients_stats,
                   valid_client_ids, silver, gold_vars,
                   spark_silver_vars, rest_vars>>

CheckFinalPurchases ==
    /\ pc = "check_final_purchases"
    /\ IF QualityCheckFinalPasses(df_purchases_clean)
       THEN pc' = "save_purchases" /\ UNCHANGED err
       ELSE Raise("AssertionError")
    /\ UNCHANGED <<bronze_clients, bronze_purchases, df_clients_raw,
                   df_purchases_raw, df_clients_clean, clients_stats,
                   valid_client_ids, df_purchases_clean, purchases_stats,
                   silver, gold_vars,
                   spark_silver_vars, rest_vars>>

SavePurchases ==
    /\ pc = "save_purchases"
    /\ silver' = [silver EXCEPT !.purchases = Object(df_purchases_clean)]
    /\ pc' = "done"
    /\ UNCHANGED <<bronze_clients, bronze_purchases, df_clients_raw,
                   df_purchases_raw, df_clients_clean, clients_stats,
                   valid_client_ids, df_purchases_clean, purchases_stats,
                   err, gold_vars,
                   spark_silver_vars, rest_vars>>

----------------------------------------------------------------------------
(* The Spark silver flow (flows/silver_ingestion_spark.py).  A DataFrame is  *)
(* taken as evaluated once: the rows that a cleaning function counts are the *)
(* rows that are checked and saved.                                          *)

\* cast(IntegerType()) of a value that is no number: null, here as an integer
NullInt == -1

\* Column.cast(IntegerType()) and cast(DoubleType()): no error, null instead
SparkCast(c) == IF c.kind = "num" THEN c.int ELSE NullInt

\* The elements of a set of integers in ascending order
RECURSIVE Ascending(_)
Ascending(K) ==
    IF K = {} THEN <<>>
    ELSE LET m == CHOOSE x \in K : \A y \in K : x <= y
         IN  <<m>> \o Ascending(K \ {m})

\* The rows of df at the positions K, in the order of df
RowsAt(df, K) == LET idx == Ascending(K) IN [i \in 1..Len(idx) |-> df[idx[i]]]

\* DataFrame.dropDuplicates([col]): one row of every value of col, whichever
SparkDropDuplicates(df, col) ==
    {RowsAt(df, K) : K \in
        {J \in SUBSET (1..Len(df)) :
            /\ \A i \in 1..Len(df) : \E j \in J : df[j][col] = df[i][col]
            /\ \A i, j \in J : i # j => df[i][col] # df[j][col]}}

SparkClientsStep5(df) ==
    [i \in 1..Len(df) |->
        [client_id |-> SparkCast(df[i].client_id),
         name |-> StrStrip(df[i].name.chars),
         email |-> df[i].email,
         country |-> StrStrip(df[i].country.chars),
         date_inscription |-> df[i].date_inscription.int]]

\* dropDuplicates(["client_id"]), then dropDuplicates(["email"])
SparkClientsStep6(df) ==
    UNION {SparkDropDuplicates(t, "email") : t \in SparkDropDuplicates(df, "client_id")}

\* ... / initial_count * 100 if initial_count > 0 else 0
SparkDataLoss(initial, final) ==
    IF initial > 0 THEN [num |-> (initial - final) * 100, den |-> initial]
    ELSE [num |-> 0, den |-> 1]

\* clean_clients_data of the Spark flow: the results [df, stats] it can return
spark_clean_clients_data(df) ==
    LET s1 == ClientsStep1(df)
        s2 == ClientsStep2(s1)
        s3p == ClientsStep3Parse(s2)
        s3f == ClientsStep3Future(s3p)
        s4 == ClientsStep4(s3f)
        s5 == SparkClientsStep5(s4)
    IN  {[df |-> SortValues(s6, "client_id"),
          stats |-> [initial_rows |-> Len(df),
                     removed_null_critical |-> Len(df) - Len(s1),
                     removed_duplicates |-> Len(s5) - Len(s6),
                     removed_invalid_dates |-> Len(s1) - Len(s3p),
                     removed_invalid_emails |-> Len(s3f) - Len(s4),
                     final_rows |-> Len(s6),
                     data_loss_percentage |-> SparkDataLoss(Len(df), Len(s6))]] :
            s6 \in SparkClientsStep6(s5)}

SparkPurchasesStep4(df) ==
    [i \in 1..Len(df) |->
        [purchase_id |-> SparkCast(df[i].purchase_id),
         client_id |-> SparkCast(df[i].client_id),
         amount |-> SparkCast(df[i].amount),
         product |-> StrStrip(df[i].product.chars),
         date_purchase |-> df[i].date_purchase.int]]

\* The relative error handed to approxQuantile, in hundredths
ApproxErrorPct == 1

\* The ranks approxQuantile may answer for probability pct/100 on n >= 1 values:
\* floor((p - err) * n) <= rank <= ceil((p + err) * n), within 1..n
ApproxRanks(n, pct) ==
    LET lo == ((pct - ApproxErrorPct) * n) \div 100
        hi == ((pct + ApproxErrorPct) * n + 99) \div 100
    IN  (IF lo < 1 THEN 1 ELSE lo)..(IF hi > n THEN n ELSE hi)

\* approxQuantile("amount", [pct/100], 0.01): a value of the column at such a rank
ApproxQuantile(df, pct) ==
    LET sorted == SortValues(df, "amount")
    IN  {sorted[r].amount : r \in ApproxRanks(Len(df), pct)}

\* Step 7 of the Spark flow: the tables the outlier filter can leave
SparkPurchasesStep7(df) ==
    IF df = <<>> THEN {<<>>}
    ELSE {SelectSeq(df, LAMBDA r : /\ r.amount >= q1 - IqrFactor * (q3 - q1)
                                   /\ r.amount <= q3 + IqrFactor * (q3 - q1)) :
             q1 \in ApproxQuantile(df, 25), q3 \in ApproxQuantile(df, 75)}

\* clean_purchases_data of the Spark flow: the results [df, stats] it can return
spark_clean_purchases_data(df, valid) ==
    LET s1 == PurchasesStep1(df)
        s2 == PurchasesStep2(s1)
        s3p == PurchasesStep3Parse(s2)
        s3f == PurchasesStep3Future(s3p)
        s4 == SparkPurchasesStep4(s3f)
        s5 == SelectSeq(s4, LAMBDA r : r.amount > 0)
        s6 == SelectSeq(s5, LAMBDA r : r.client_id \in valid)
    IN  UNION {
          {[df |-> SortValues(s8, "purchase_id"),
            stats |-> [initial_rows |-> Len(df),
                       removed_null_critical |-> Len(df) - Len(s1),
                       removed_duplicates |-> Len(s7) - Len(s8),
                       removed_invalid_dates |-> Len(s1) - Len(s3p),
                       removed_invalid_amounts |-> Len(s4) - Len(s5),
                       removed_invalid_clients |-> Len(s5) - Len(s6),
                       removed_outliers |-> Len(s6) - Len(s7),
                       final_rows |-> Len(s8),
                       data_loss_percentage |-> SparkDataLoss(Len(df), Len(s8))]] :
              s8 \in SparkDropDuplicates(s7, "purchase_id")} :
          s7 \in SparkPurchasesStep7(s6)}

\* load_data_from_bronze and quality_check_initial, which only reports
SparkLoadClients ==
    /\ spark_pc = "load_clients"
    /\ spark_pc' = "clean_clients"
    /\ UNCHANGED <<spark_clients_clean, spark_clients_stats, spark_valid_ids,
                   spark_purchases_clean, spark_purchases_stats, spark_err,
                   silver_vars, gold_vars, rest_vars>>

SparkCleanClients ==
    /\ spark_pc = "clean_clients"
    /\ \E res \in spark_clean_clients_data(bronze_clients) :
        /\ spark_clients_clean' = res.df
        /\ spark_clients_stats' = res.stats
    /\ spark_pc' = "check_final_clients"
    /\ UNCHANGED <<spark_valid_ids, spark_purchases_clean, spark_purchases_stats,
                   spark_err, silver_vars, gold_vars, rest_vars>>

\* total_rows - df.dropDuplicates().count() must be 0
SparkCheckFinalClients ==
    /\ spark_pc = "check_final_clients"
    /\ IF QualityCheckFinalPasses(spark_clients_clean)
       THEN spark_pc' = "save_clients" /\ UNCHANGED spark_err
       ELSE spark_pc' = "failed" /\ spark_err' = "AssertionError"
    /\ UNCHANGED <<spark_clients_clean, spark_clients_stats, spark_valid_ids,
                   spark_purchases_clean, spark_purchases_stats,
                   silver_vars, gold_vars, rest_vars>>

\* save_to_silver(df_clients_clean, "clients_spark"), then valid_client_ids
\* Variant: the Spark flow saves its clients under the name of the pandas flow
SparkSaveClientsAsPandas ==
    /\ spark_pc = "save_clients"
    /\ silver' = [silver EXCEPT !.clients = Object(spark_clients_clean)]
    /\ spark_valid_ids' = ClientIdSet(spark_clients_clean)
    /\ spark_pc' = "load_purchases"
    /\ UNCHANGED <<spark_clients_clean, spark_clients_stats,
                   spark_purchases_clean, spark_purchases_stats, spark_err,
                   bronze_clients, bronze_purchases, silver_locals, gold_vars, rest_vars>>

SparkSaveClients ==
    /\ spark_pc = "save_clients"
    /\ silver' = [silver EXCEPT !.clients_spark = Object(spark_clients_clean)]
    /\ spark_valid_ids' = ClientIdSet(spark_clients_clean)
    /\ spark_pc' = "load_purchases"
    /\ UNCHANGED <<spark_clients_clean, spark_clients_stats,
                   spark_purchases_clean, spark_purchases_stats, spark_err,
                   bronze_clients, bronze_purchases, silver_locals, gold_vars, rest_vars>>

SparkLoadPurchases ==
    /\ spark_pc = "load_purchases"
    /\ spark_pc' = "clean_purchases"
    /\ UNCHANGED <<spark_clients_clean, spark_clients_stats, spark_valid_ids,
                   spark_purchases_clean, spark_purchases_stats, spark_err,
                   silver_vars, gold_vars, rest_vars>>

SparkCleanPurchases ==
    /\ spark_pc = "clean_purchases"
    /\ \E res \in spark_clean_purchases_data(bronze_purchases, spark_valid_ids) :
        /\ spark_purchases_clean' = res.df
        /\ spark_purchases_stats' = res.stats
    /\ spark_pc' = "check_final_purchases"
    /\ UNCHANGED <<spark_clients_clean, spark_clients_stats, spark_valid_ids,
                   spark_err, silver_vars, gold_vars, rest_vars>>

SparkCheckFinalPurchases ==
    /\ spark_pc = "check_final_purchases"
    /\ IF QualityCheckFinalPasses(spark_purchases_clean)
       THEN spark_pc' = "save_purchases" /\ UNCHANGED spark_err
       ELSE spark_pc' = "failed" /\ spark_err' = "AssertionError"
    /\ UNCHANGED <<spark_clients_clean, spark_clients_stats, spark_valid_ids,
                   spark_purchases_clean, spark_purchases_stats,
                   silver_vars, gold_vars, rest_vars>>

SparkSavePurchases ==
    /\ spark_pc = "save_purchases"
    /\ silver' = [silver EXCEPT !.purchases_spark = Object(spark_purchases_clean)]
    /\ spark_pc' = "done"
    /\ UNCHANGED <<spark_clients_clean, spark_clients_stats, spark_valid_ids,
                   spark_purchases_clean, spark_purchases_stats, spark_err,
                   bronze_clients, bronze_purchases, silver_locals, gold_vars, rest_vars>>

----------------------------------------------------------------------------
(* Raw inputs of the silver stage *)

MaxClientRows == 3
MaxPurchaseRows == 2
MaxAmountRows == 6
MaxFlowRows == 2

E_a == <<"a", "@", "x", ".", "c", "o", "m">>
E_A == <<" ", "A", "@", "X", ".", "C", "O", "M", " ">>
E_dup == <<"d", "u", "p", "@", "x", ".", "c", "o", "m">>
E_nodot == <<"a", "@", "x", "c", "o", "m">>
NotANumber == <<"x">>
FR == <<"F", "R">>
Laptop == <<"P", "C">>

BaseClient ==
    [client_id |-> Num(1, 0), name |-> Str(<<"A", "d", "a">>), email |-> Str(E_a),
     country |-> Str(FR), date_inscription |-> Date(1)]

\* Rows that pass every check: ids 1, 1.5 and 2, three spellings of two addresses
RegularClientRows ==
    {[BaseClient EXCEPT !.client_id = i, !.email = Str(e)] :
        i \in {Num(1, 0), Num(1, 5), Num(2, 0)}, e \in {E_a, E_A, E_dup}}

\* Rows with one defect each
IrregularClientRows ==
    {[BaseClient EXCEPT !.client_id = Null],
     [BaseClient EXCEPT !.client_id = Str(NotANumber)],
     [BaseClient EXCEPT !.email = Null],
     [BaseClient EXCEPT !.email = Str(E_nodot)],
     [BaseClient EXCEPT !.date_inscription = Str(NotANumber)],
     [BaseClient EXCEPT !.date_inscription = Date(Today + 1)],
     [BaseClient EXCEPT !.country = Null]}

RawClientRows == RegularClientRows \cup IrregularClientRows
RawClientTables == SeqsUpTo(RawClientRows, MaxClientRows)

BasePurchase ==
    [purchase_id |-> Num(1, 0), client_id |-> Num(1, 0), amount |-> Num(10, 0),
     product |-> Str(Laptop), date_purchase |-> Date(32)]

RegularPurchaseRows ==
    {[BasePurchase EXCEPT !.purchase_id = Num(p, 0), !.client_id = Num(c, 0),
                          !.amount = Num(a, 0)] :
        p \in {1, 2}, c \in {1, 2}, a \in {10, 50}}

IrregularPurchaseRows ==
    {[BasePurchase EXCEPT !.purchase_id = Null],
     [BasePurchase EXCEPT !.purchase_id = Str(NotANumber)],
     [BasePurchase EXCEPT !.client_id = Null],
     [BasePurchase EXCEPT !.amount = Null],
     [BasePurchase EXCEPT !.amount = Str(NotANumber)],
     [BasePurchase EXCEPT !.amount = Num(0, 0)],
     [BasePurchase EXCEPT !.amount = Num(-5, 0)],
     [BasePurchase EXCEPT !.date_purchase = Str(NotANumber)],
     [BasePurchase EXCEPT !.date_purchase = Date(Today + 1)],
     [BasePurchase EXCEPT !.product = Null]}

RawPurchaseRows == RegularPurchaseRows \cup IrregularPurchaseRows

\* Longer tables of valid rows of client 1, one purchase id per row, that differ
\* in the amounts a[1..n]
OutlierAmounts == {1, 10, 13, 100}
AmountTable(a) ==
    [i \in DOMAIN a |-> [BasePurchase EXCEPT !.purchase_id = Num(i, 0),
                                             !.amount = Num(a[i], 0)]]

RawPurchaseTables == SeqsUpTo(RawPurchaseRows, MaxPurchaseRows)

ValidIdSets == {{}, {1}, {1, 2}}

\* Inputs of whole runs of the flow
FlowClientRows ==
    {BaseClient,
     [BaseClient EXCEPT !.client_id = Num(2, 0), !.email = Str(E_dup)],
     [BaseClient EXCEPT !.client_id = Num(2, 0)],
     [BaseClient EXCEPT !.date_inscription = Date(Today + 1)],
     [BaseClient EXCEPT !.client_id = Str(NotANumber)]}

FlowPurchaseRows ==
    {BasePurchase,
     [BasePurchase EXCEPT !.purchase_id = Num(2, 0), !.client_id = Num(2, 0)],
     [BasePurchase EXCEPT !.purchase_id = Num(2, 0), !.client_id = Num(3, 0)],
     [BasePurchase EXCEPT !.amount = Num(-5, 0)],
     [BasePurchase EXCEPT !.amount = Str(NotANumber)]}

FlowClientTables == SeqsUpTo(FlowClientRows, MaxFlowRows)
FlowPurchaseTables == SeqsUpTo(FlowPurchaseRows, MaxFlowRows)

EmptyBucket ==
    [clients |-> NoObject, purchases |-> NoObject,
     clients_spark |-> NoObject, purchases_spark |-> NoObject]

SparkIdle ==
    /\ spark_pc = "idle"
    /\ spark_clients_clean = NoTable
    /\ spark_clients_stats = NoStats
    /\ spark_valid_ids = {}
    /\ spark_purchases_clean = NoTable
    /\ spark_purchases_stats = NoStats
    /\ spark_err = "none"

\* The objects of the gold bucket that the flows write or read
GoldNames ==
    {"fact_purchases", "dim_clients", "dim_products", "kpi_global",
     "agg_by_country", "agg_by_product", "agg_by_day", "agg_by_week",
     "agg_by_month", "agg_by_quarter", "client_behavior_rfm",
     "statistical_distributions", "matrix_country_product",
     "gold_client_summary_spark", "gold_product_stats_spark",
     "gold_monthly_sales_spark",
     "gold_client_summary", "gold_product_stats", "gold_monthly_sales"}

EmptyGold == [n \in GoldNames |-> NoObject]

\* The collections of the database, each a sequence of documents
EmptyMongo ==
    [clients |-> <<>>, products |-> <<>>, monthly_sales |-> <<>>,
     metadata |-> <<>>, indexes |-> {}, next_id |-> 1]

NoStores == [silver |-> EmptyBucket, gold |-> EmptyGold, mongo |-> EmptyMongo]

MainIdle ==
    /\ main_pc = "idle"
    /\ started = <<>>
    /\ failed = {}

\* No flow run is in progress
NoTaskRun == [flow |-> "none", call |-> 0, attempt |-> 0, state |-> "none"]

StoresIdle ==
    /\ gold = EmptyGold
    /\ mongo = EmptyMongo
    /\ mongo_pc = "idle"
    /\ results = <<>>
    /\ now = 0
    /\ runs = <<>>
    /\ prev = NoStores
    /\ task_run = NoTaskRun

RestIdle == MainIdle /\ StoresIdle

GoldIdle ==
    /\ fact_table = <<>>
    /\ gold_pc = "idle"
    /\ kpi_global = <<>>
    /\ client_behavior = <<>>
    /\ gold_err = "none"
    /\ agg_country = <<>>
    /\ agg_product = <<>>
    /\ agg_monthly = <<>>
    /\ spark_gold_pc = "idle"
    /\ product_stats = <<>>
    /\ monthly_sales = <<>>

SilverFresh ==
    /\ df_clients_raw = NoTable
    /\ df_purchases_raw = NoTable
    /\ df_clients_clean = NoTable
    /\ clients_stats = NoStats
    /\ df_purchases_clean = NoTable
    /\ purchases_stats = NoStats
    /\ silver = EmptyBucket
    /\ err = "none"

\* A run of silver_transformation_flow on the bronze objects
Init ==
    /\ bronze_clients \in FlowClientTables
    /\ bronze_purchases \in FlowPurchaseTables
    /\ pc = "load_clients"
    /\ valid_client_ids = {}
    /\ SilverFresh
    /\ GoldIdle
    /\ SparkIdle
    /\ RestIdle

Next ==
    \/ LoadClients
    \/ CheckInitialClients
    \/ CleanClients
    \/ CheckFinalClients
    \/ SaveClients
    \/ LoadPurchases
    \/ CheckInitialPurchases
    \/ CleanPurchases
    \/ CheckFinalPurchases
    \/ SavePurchases

Spec == Init /\ [][Next]_vars

\* The two cleaning tasks, each called on every raw table
InitClean ==
    /\ \/ /\ pc = "clean_clients"
          /\ bronze_clients \in RawClientTables
          /\ bronze_purchases = <<>>
          /\ valid_client_ids = {}
       \/ /\ pc = "clean_purchases"
          /\ bronze_clients = <<>>
          /\ bronze_purchases \in RawPurchaseTables
          /\ valid_client_ids \in ValidIdSets
       \/ /\ pc = "clean_purchases"
          /\ bronze_clients = <<>>
          /\ \E n \in 0..MaxAmountRows : \E a \in [1..n -> OutlierAmounts] :
                bronze_purchases = AmountTable(a)
          /\ valid_client_ids = {1}
    /\ df_clients_raw = bronze_clients
    /\ df_purchases_raw = bronze_purchases
    /\ df_clients_clean = NoTable
    /\ clients_stats = NoStats
    /\ df_purchases_clean = NoTable
    /\ purchases_stats = NoStats
    /\ silver = EmptyBucket
    /\ err = "none"
    /\ GoldIdle
    /\ spark_pc = pc
    /\ spark_clients_clean = NoTable
    /\ spark_clients_stats = NoStats
    /\ spark_valid_ids = valid_client_ids
    /\ spark_purchases_clean = NoTable
    /\ spark_purchases_stats = NoStats
    /\ spark_err = "none"
    /\ RestIdle

NextClean ==
    \/ CleanClients
    \/ CleanPurchases
    \/ SparkCleanClients
    \/ SparkCleanPurchases

SpecClean == InitClean /\ [][NextClean]_vars

\* The most rows of a table of the outlier step
MaxOutlierRows == 4

\* clean_purchases_data on valid purchases of client 1 whose amounts are small,
\* large or infinite
InitOutlier ==
    /\ pc = "clean_purchases"
    /\ bronze_clients = <<>>
    /\ \E n \in 0..MaxOutlierRows : \E a \in [1..n -> OutlierAmounts \cup {Inf}] :
          bronze_purchases = AmountTable(a)
    /\ valid_client_ids = {1}
    /\ df_clients_raw = bronze_clients
    /\ df_purchases_raw = bronze_purchases
    /\ df_clients_clean = NoTable
    /\ clients_stats = NoStats
    /\ df_purchases_clean = NoTable
    /\ purchases_stats = NoStats
    /\ silver = EmptyBucket
    /\ err = "none"
    /\ GoldIdle
    /\ SparkIdle
    /\ RestIdle

NextOutlier == CleanPurchases

SpecOutlier == InitOutlier /\ [][NextOutlier]_vars

\* quality_check_final and what follows it in the flow, on every cleaned table, with
\* and without rows that are equal in every column
CleanedClient(i, e) ==
    [client_id |-> i, name |-> <<"A", "d", "a">>, email |-> e, country |-> FR,
     date_inscription |-> 1]

CleanedPurchase(p, c) ==
    [purchase_id |-> p, client_id |-> c, amount |-> 10, product |-> Laptop,
     date_purchase |-> 32]

CheckedClientTables ==
    SeqsUpTo({CleanedClient(1, E_a), CleanedClient(2, E_dup)}, MaxFlowRows)

CheckedPurchaseTables ==
    SeqsUpTo({CleanedPurchase(1, 1), CleanedPurchase(2, 1)}, MaxFlowRows)

InitCheck ==
    /\ bronze_clients = <<>>
    /\ bronze_purchases \in {<<>>, <<BasePurchase>>,
                             <<BasePurchase, BasePurchase>>}
    /\ \/ /\ pc = "check_final_clients"
          /\ df_clients_clean \in CheckedClientTables
          /\ df_purchases_raw = NoTable
          /\ df_purchases_clean = NoTable
          /\ valid_client_ids = {}
          /\ silver = EmptyBucket
       \/ /\ pc = "check_final_purchases"
          /\ df_clients_clean = <<CleanedClient(1, E_a)>>
          /\ df_purchases_raw = bronze_purchases
          /\ df_purchases_clean \in CheckedPurchaseTables
          /\ valid_client_ids = {1}
          /\ silver = [EmptyBucket EXCEPT !.clients = Object(df_clients_clean)]
    /\ df_clients_raw = bronze_clients
    /\ clients_stats = NoStats
    /\ purchases_stats = NoStats
    /\ err = "none"
    /\ GoldIdle
    /\ SparkIdle
    /\ RestIdle

NextCheck ==
    \/ CheckFinalClients
    \/ SaveClients
    \/ LoadPurchases
    \/ CheckInitialPurchases
    \/ CleanPurchases
    \/ CheckFinalPurchases
    \/ SavePurchases

SpecCheck == InitCheck /\ [][NextCheck]_vars

----------------------------------------------------------------------------
(* Gold aggregation tasks.  A fact row is a cleaned purchase joined with its *)
(* client's name and country; a mean is the pair [num, den] (den = 0: NaN). *)

RECURSIVE SumAmount(_)
SumAmount(df) == IF df = <<>> THEN 0 ELSE Head(df).amount + SumAmount(Tail(df))

\* Series.nunique()
NUnique(df, col) == Cardinality({df[i][col] : i \in 1..Len(df)})

\* Series.mean()
Mean(df) == [num |-> SumAmount(df), den |-> Len(df)]

Min(S) == CHOOSE x \in S : \A y \in S : x <= y
Max(S) == CHOOSE x \in S : \A y \in S : x >= y

\* aggregate_kpi_global: the "value" column, or the exception it raises
aggregate_kpi_global(df) ==
    IF PyDivRaises(NUnique(df, "client_id"))
    THEN [raised |-> "ZeroDivisionError", kpis |-> <<>>]
    ELSE [raised |-> "none",
          kpis |-> <<SumAmount(df),
                     NUnique(df, "purchase_id"),
                     Mean(df),
                     [num |-> Quantile4(df, 2), den |-> 4],
                     NUnique(df, "client_id"),
                     NUnique(df, "product"),
                     [num |-> Len(df), den |-> NUnique(df, "client_id")]>>]

\* Thresholds of segment_client
VipRecencyDays == 30
VipPurchases == 5
ActiveRecencyDays == 90
ActivePurchases == 3
AtRiskRecencyDays == 180

\* Variant: the recency limits are exclusive
segment_client_exclusive(row) ==
    IF row.recency_days < VipRecencyDays /\ row.total_purchases >= VipPurchases
    THEN "VIP"
    ELSE IF row.recency_days < ActiveRecencyDays
            /\ row.total_purchases >= ActivePurchases
    THEN "Active"
    ELSE IF row.recency_days < AtRiskRecencyDays
    THEN "At Risk"
    ELSE "Inactive"

segment_client(row) ==
    IF row.recency_days <= VipRecencyDays /\ row.total_purchases >= VipPurchases
    THEN "VIP"
    ELSE IF row.recency_days <= ActiveRecencyDays
            /\ row.total_purchases >= ActivePurchases
    THEN "Active"
    ELSE IF row.recency_days <= AtRiskRecencyDays
    THEN "At Risk"
    ELSE "Inactive"

\* Variant: the wall clock instead of the latest purchase
BehaviorTodayWallClock(df) == Today

\* today = fact_table["date_purchase"].max()
BehaviorToday(df) == Max({df[i].date_purchase : i \in 1..Len(df)})

\* fact_table.groupby("client_id"): the keys ascending
GroupKeys(df, col) == SortValues(
    DropDuplicates([i \in 1..Len(df) |-> [key |-> df[i][col]]], "key"), "key")

\* Variant: the purchases per day of lifetime, without the added day
BehaviorRowPerLifetime(df, c) ==
    LET g == SelectSeq(df, LAMBDA r : r.client_id = c)
        dates == {g[i].date_purchase : i \in 1..Len(g)}
        amounts == {g[i].amount : i \in 1..Len(g)}
    IN  [client_id |-> c,
         total_purchases |-> Len(g),
         total_spent |-> SumAmount(g),
         avg_purchase_value |-> Mean(g),
         min_purchase_value |-> Min(amounts),
         max_purchase_value |-> Max(amounts),
         first_purchase_date |-> Min(dates),
         last_purchase_date |-> Max(dates),
         unique_products_bought |-> NUnique(g, "product"),
         country |-> g[1].country,
         name |-> g[1].name,
         recency_days |-> BehaviorToday(df) - Max(dates),
         customer_lifetime_days |-> Max(dates) - Min(dates),
         purchase_frequency |->
             [num |-> Len(g), den |-> Max(dates) - Min(dates)]]

\* One row of client_behavior, before the segment is set
BehaviorRow(df, c) ==
    LET g == SelectSeq(df, LAMBDA r : r.client_id = c)
        dates == {g[i].date_purchase : i \in 1..Len(g)}
        amounts == {g[i].amount : i \in 1..Len(g)}
    IN  [client_id |-> c,
         total_purchases |-> Len(g),
         total_spent |-> SumAmount(g),
         avg_purchase_value |-> Mean(g),
         min_purchase_value |-> Min(amounts),
         max_purchase_value |-> Max(amounts),
         first_purchase_date |-> Min(dates),
         last_purchase_date |-> Max(dates),
         unique_products_bought |-> NUnique(g, "product"),
         country |-> g[1].country,
         name |-> g[1].name,
         recency_days |-> BehaviorToday(df) - Max(dates),
         customer_lifetime_days |-> Max(dates) - Min(dates),
         purchase_frequency |->
             [num |-> Len(g), den |-> (Max(dates) - Min(dates)) + 1]]

WithSegment(row) ==
    [k \in DOMAIN row \cup {"client_segment"} |->
        IF k = "client_segment" THEN segment_client(row) ELSE row[k]]

\* client_behavior before sort_values (std_purchase_value, a square root, is left out)
BehaviorRows(df) ==
    LET keys == GroupKeys(df, "client_id")
    IN  [i \in 1..Len(keys) |-> WithSegment(BehaviorRow(df, keys[i].key))]

\* sort_values("total_spent", ascending=False): the order among equal totals is
\* whatever the (unstable) quicksort leaves
SortedBySpent(rows) ==
    {[i \in 1..Len(rows) |-> rows[p[i]]] : p \in
        {q \in Permutations(1..Len(rows)) :
            \A i, j \in 1..Len(rows) :
                i < j => rows[q[i]].total_spent >= rows[q[j]].total_spent}}

\* On an empty table DataFrame.apply(axis=1) returns an empty DataFrame, and setting
\* one column to it raises ValueError or not with the pandas release
BehaviorOutcomes(df) ==
    IF df = <<>> THEN {"none", "ValueError"} ELSE {"none"}

----------------------------------------------------------------------------
(* Calendar: a day number (day 1 = 2024-01-01) as year and month, and the   *)
(* string "YYYY-MM" of to_period("M").astype(str) and date_format("yyyy-MM") *)

FirstYear == 2024

IsLeap(y) == (y % 4 = 0 /\ y % 100 # 0) \/ y % 400 = 0

DaysInMonth(y, m) ==
    IF m = 2 THEN (IF IsLeap(y) THEN 29 ELSE 28)
    ELSE IF m \in {4, 6, 9, 11} THEN 30 ELSE 31

\* The year and month of day d, counted from the first day of month m of year y
RECURSIVE YearMonthFrom(_, _, _)
YearMonthFrom(d, y, m) ==
    IF d <= DaysInMonth(y, m) THEN [year |-> y, month |-> m]
    ELSE YearMonthFrom(d - DaysInMonth(y, m),
                       IF m = 12 THEN y + 1 ELSE y,
                       IF m = 12 THEN 1 ELSE m + 1)

YearMonthOf(d) == YearMonthFrom(d, FirstYear, 1)

Digits == <<"0", "1", "2", "3", "4", "5", "6", "7", "8", "9">>

\* The last w decimal digits of n, as characters
RECURSIVE ZeroPad(_, _)
ZeroPad(n, w) ==
    IF w = 0 THEN <<>> ELSE Append(ZeroPad(n \div 10, w - 1), Digits[(n % 10) + 1])

\* str(Period("M")): "YYYY-MM"
PeriodMonthStr(d) ==
    LET ym == YearMonthOf(d)
    IN  ZeroPad(ym.year, 4) \o <<"-">> \o ZeroPad(ym.month, 2)

\* Code points of the characters that occur in group keys
CharCode ==
    [c \in {"-", "0", "1", "2", "3", "4", "5", "6", "7", "8", "9",
            "C", "F", "K", "P", "R", "T", "U", "V", "/"} |->
        CASE c = "-" -> 45 [] c = "/" -> 47
          [] c = "0" -> 48 [] c = "1" -> 49 [] c = "2" -> 50 [] c = "3" -> 51
          [] c = "4" -> 52 [] c = "5" -> 53 [] c = "6" -> 54 [] c = "7" -> 55
          [] c = "8" -> 56 [] c = "9" -> 57
          [] c = "C" -> 67 [] c = "F" -> 70 [] c = "K" -> 75 [] c = "P" -> 80
          [] c = "R" -> 82 [] c = "T" -> 84 [] c = "U" -> 85 [] c = "V" -> 86]

\* a <= b in the order of Python strings
RECURSIVE StrLeq(_, _)
StrLeq(a, b) ==
    IF a = <<>> THEN TRUE
    ELSE IF b = <<>> THEN FALSE
    ELSE IF Head(a) = Head(b) THEN StrLeq(Tail(a), Tail(b))
    ELSE CharCode[Head(a)] < CharCode[Head(b)]

\* The strings of S in ascending order
RECURSIVE SortedStrings(_)
SortedStrings(S) ==
    IF S = {} THEN <<>>
    ELSE LET m == CHOOSE x \in S : \A y \in S : StrLeq(x, y)
         IN  <<m>> \o SortedStrings(S \ {m})

\* The missing string (NaN) that a left merge leaves where no row matches
NaNStr == <<"NaN">>

\* groupby(col) on a string column: the group keys, sorted; rows whose key is
\* missing belong to no group
GroupKeysStr(df, col) ==
    SortedStrings({df[i][col] : i \in 1..Len(df)} \ {NaNStr})

\* The rows of one group
Group(df, col, k) == SelectSeq(df, LAMBDA r : r[col] = k)

\* Variant: the fraction, not the percentage
RevenueShareFraction(revenue, total) == [num |-> revenue, den |-> total]

\* total_revenue / total_revenue.sum() * 100 as the pair [num, den]
RevenueShare(revenue, total) == [num |-> revenue * 100, den |-> total]

RECURSIVE SumCol(_, _)
SumCol(rows, col) ==
    IF rows = <<>> THEN 0 ELSE Head(rows)[col] + SumCol(Tail(rows), col)

\* sort_values("total_revenue", ascending=False): the order among equal revenues
\* is whatever the (unstable) quicksort leaves
SortedByRevenue(rows) ==
    {[i \in 1..Len(rows) |-> rows[p[i]]] : p \in
        {q \in Permutations(1..Len(rows)) :
            \A i, j \in 1..Len(rows) :
                i < j => rows[q[i]].total_revenue >= rows[q[j]].total_revenue}}

\* aggregate_by_country before sort_values
CountryRows(df) ==
    LET keys == GroupKeysStr(df, "country")
        rows == [i \in 1..Len(keys) |->
                    LET g == Group(df, "country", keys[i])
                    IN  [country |-> keys[i],
                         total_revenue |-> SumAmount(g),
                         avg_transaction_value |-> Mean(g),
                         total_transactions |-> Len(g),
                         unique_clients |-> NUnique(g, "client_id"),
                         unique_products |-> NUnique(g, "product")]]
        total == SumCol(rows, "total_revenue")
    IN  [i \in 1..Len(rows) |->
            [k \in DOMAIN rows[i] \cup {"revenue_share_pct"} |->
                IF k = "revenue_share_pct"
                THEN RevenueShare(rows[i].total_revenue, total)
                ELSE rows[i][k]]]

\* aggregate_by_product before sort_values
ProductRows(df) ==
    LET keys == GroupKeysStr(df, "product")
        rows == [i \in 1..Len(keys) |->
                    LET g == Group(df, "product", keys[i])
                    IN  [product |-> keys[i],
                         total_revenue |-> SumAmount(g),
                         avg_price |-> Mean(g),
                         total_sales |-> Len(g),
                         unique_buyers |-> NUnique(g, "client_id")]]
        total == SumCol(rows, "total_revenue")
    IN  [i \in 1..Len(rows) |->
            [k \in DOMAIN rows[i] \cup {"revenue_share_pct"} |->
                IF k = "revenue_share_pct"
                THEN RevenueShare(rows[i].total_revenue, total)
                ELSE rows[i][k]]]

\* Not a number: the pair with den = 0
NaN == [num |-> 0, den |-> 0]

\* Variant: the change is divided by the value of the row itself
PctChangeOfCurrent(rows, col, i) ==
    IF i = 1 THEN NaN
    ELSE [num |-> (rows[i][col] - rows[i - 1][col]) * 100, den |-> rows[i][col]]

\* Series.pct_change() * 100 at position i
PctChange(rows, col, i) ==
    IF i = 1 THEN NaN
    ELSE [num |-> (rows[i][col] - rows[i - 1][col]) * 100, den |-> rows[i - 1][col]]

\* Variant: the revenue of the month alone
CumSumNoCarry(rows, col, i) == rows[i][col]

\* Series.cumsum() at position i
CumSum(rows, col, i) == SumCol(SubSeq(rows, 1, i), col)

\* aggregate_by_time_monthly
aggregate_by_time_monthly(df) ==
    LET keys == GroupKeysStr(df, "year_month")
        rows == [i \in 1..Len(keys) |->
                    LET g == Group(df, "year_month", keys[i])
                    IN  [year_month |-> keys[i],
                         monthly_revenue |-> SumAmount(g),
                         avg_transaction_value |-> Mean(g),
                         monthly_transactions |-> Len(g),
                         monthly_unique_clients |-> NUnique(g, "client_id"),
                         monthly_unique_products |-> NUnique(g, "product")]]
    IN  [i \in 1..Len(rows) |->
            [year_month |-> rows[i].year_month,
             monthly_revenue |-> rows[i].monthly_revenue,
             avg_transaction_value |-> rows[i].avg_transaction_value,
             monthly_transactions |-> rows[i].monthly_transactions,
             monthly_unique_clients |-> rows[i].monthly_unique_clients,
             monthly_unique_products |-> rows[i].monthly_unique_products,
             revenue_mom_growth_pct |-> PctChange(rows, "monthly_revenue", i),
             transactions_mom_growth_pct |->
                 PctChange(rows, "monthly_transactions", i),
             clients_mom_growth_pct |->
                 PctChange(rows, "monthly_unique_clients", i),
             cumulative_revenue |-> CumSum(rows, "monthly_revenue", i)]]

AggregateByCountry ==
    /\ gold_pc = "ready"
    /\ agg_country' \in SortedByRevenue(CountryRows(fact_table))
    /\ gold_pc' = "agg_by_country"
    /\ UNCHANGED <<fact_table, kpi_global, client_behavior, gold_err, agg_product,
                   agg_monthly, spark_gold_vars, silver_vars,
                   spark_silver_vars, rest_vars>>

AggregateByProduct ==
    /\ gold_pc = "ready"
    /\ agg_product' \in SortedByRevenue(ProductRows(fact_table))
    /\ gold_pc' = "agg_by_product"
    /\ UNCHANGED <<fact_table, kpi_global, client_behavior, gold_err, agg_country,
                   agg_monthly, spark_gold_vars, silver_vars,
                   spark_silver_vars, rest_vars>>

AggregateByTimeMonthly ==
    /\ gold_pc = "ready"
    /\ agg_monthly' = aggregate_by_time_monthly(fact_table)
    /\ gold_pc' = "agg_by_month"
    /\ UNCHANGED <<fact_table, kpi_global, client_behavior, gold_err, agg_country,
                   agg_product, spark_gold_vars, silver_vars,
                   spark_silver_vars, rest_vars>>

----------------------------------------------------------------------------
(* The Spark gold tasks (flows/gold_ingestion_spark.py).  A rounded value is *)
(* the pair [num, 100]: num hundredths.                                      *)

\* F.round(x, 2) of x = num / den >= 0: half up
Round2(num, den) == [num |-> (200 * num + den) \div (2 * den), den |-> 100]

\* date_format(date_purchase, "yyyy-MM")
DateFormatYearMonth(d) ==
    LET ym == YearMonthOf(d)
    IN  ZeroPad(ym.year, 4) \o <<"-">> \o ZeroPad(ym.month, 2)

\* orderBy(F.desc("chiffre_affaires")): rows of equal revenue in any order
OrderedByRevenueDesc(rows) ==
    {[i \in 1..Len(rows) |-> rows[p[i]]] : p \in
        {q \in Permutations(1..Len(rows)) :
            \A i, j \in 1..Len(rows) :
                i < j => rows[q[i]].chiffre_affaires.num
                             >= rows[q[j]].chiffre_affaires.num}}

\* build_product_stats before orderBy
ProductStatsRows(purchases) ==
    LET keys == GroupKeysStr(purchases, "product")
    IN  [i \in 1..Len(keys) |->
            LET g == Group(purchases, "product", keys[i])
            IN  [product |-> keys[i],
                 chiffre_affaires |-> Round2(SumAmount(g), 1),
                 prix_moyen |-> Round2(SumAmount(g), Len(g)),
                 nb_ventes |-> Len(g)]]

\* build_monthly_sales: grouped by "mois", ordered by "mois"
build_monthly_sales(purchases) ==
    LET with_month == [i \in 1..Len(purchases) |->
                          [mois |-> DateFormatYearMonth(purchases[i].date_purchase),
                           amount |-> purchases[i].amount]]
        keys == GroupKeysStr(with_month, "mois")
    IN  [i \in 1..Len(keys) |->
            LET g == Group(with_month, "mois", keys[i])
            IN  [mois |-> keys[i],
                 chiffre_affaires |-> Round2(SumAmount(g), 1),
                 panier_moyen |-> Round2(SumAmount(g), Len(g)),
                 nb_achats |-> Len(g)]]

\* The purchases columns of the fact table: what purchases_spark.parquet holds
\* when both engines cleaned the same rows
PurchasesOf(fact) ==
    [i \in 1..Len(fact) |->
        [purchase_id |-> fact[i].purchase_id, client_id |-> fact[i].client_id,
         amount |-> fact[i].amount, product |-> fact[i].product,
         date_purchase |-> fact[i].date_purchase]]

BuildProductStats ==
    /\ spark_gold_pc = "ready"
    /\ product_stats' \in OrderedByRevenueDesc(ProductStatsRows(PurchasesOf(fact_table)))
    /\ spark_gold_pc' = "product_stats"
    /\ UNCHANGED <<fact_table, gold_pc, kpi_global, client_behavior, gold_err,
                   agg_results, monthly_sales, silver_vars,
                   spark_silver_vars, rest_vars>>

BuildMonthlySales ==
    /\ spark_gold_pc = "ready"
    /\ monthly_sales' = build_monthly_sales(PurchasesOf(fact_table))
    /\ spark_gold_pc' = "monthly_sales"
    /\ UNCHANGED <<fact_table, gold_pc, kpi_global, client_behavior, gold_err,
                   agg_results, product_stats, silver_vars,
                   spark_silver_vars, rest_vars>>

AggregateKpiGlobal ==
    /\ gold_pc = "ready"
    /\ LET res == aggregate_kpi_global(fact_table)
       IN  /\ gold_err' = res.raised
           /\ kpi_global' = res.kpis
    /\ gold_pc' = "kpi_global"
    /\ UNCHANGED <<fact_table, client_behavior, agg_results, spark_gold_vars,
                   silver_vars,
                   spark_silver_vars, rest_vars>>

AggregateClientBehavior ==
    /\ gold_pc = "ready"
    /\ \E outcome \in BehaviorOutcomes(fact_table) :
        /\ gold_err' = outcome
        /\ IF outcome = "none"
           THEN client_behavior' \in SortedBySpent(BehaviorRows(fact_table))
           ELSE UNCHANGED client_behavior
    /\ gold_pc' = "client_behavior"
    /\ UNCHANGED <<fact_table, kpi_global, agg_results, spark_gold_vars,
                   silver_vars,
                   spark_silver_vars, rest_vars>>

----------------------------------------------------------------------------
(* Fact tables handed to the gold tasks *)

MaxPurchasesPerClient == 6

\* Day numbers (day 1 = 2024-01-01) whose differences meet the segment thresholds
GoldDates == {1, 10, 20, 40, 41, 100, 101, 190, 191}

FactRow(p, c, d) ==
    [purchase_id |-> p, client_id |-> c, amount |-> 10, product |-> Laptop,
     date_purchase |-> d, country |-> FR, name |-> <<"A", "d", "a">>,
     year_month |-> PeriodMonthStr(d)]

\* n purchases of client 1, the first on day lo and the others on day hi, then
\* m purchases of client 2 on day d2
FactTable(n, lo, hi, m, d2) ==
    [i \in 1..(n + m) |->
        IF i <= n THEN FactRow(i, 1, IF i = 1 THEN lo ELSE hi)
        ELSE FactRow(i, 2, d2)]

SilverIdle ==
    /\ bronze_clients = <<>>
    /\ bronze_purchases = <<>>
    /\ pc = "done"
    /\ valid_client_ids = {}
    /\ SilverFresh

MaxSalesRows == 3

UK == <<"U", "K">>
TV == <<"T", "V">>

\* Purchases of clients 1 (FR) and 2 (UK) in January, February and December 2024
\* and January 2025: what a fact row holds besides its purchase_id
SalesRows ==
    {[client_id |-> 1, amount |-> 100, product |-> Laptop, date_purchase |-> 1],
     [client_id |-> 2, amount |-> 150, product |-> TV, date_purchase |-> 32],
     [client_id |-> 1, amount |-> 10, product |-> TV, date_purchase |-> 60],
     [client_id |-> 2, amount |-> 11, product |-> Laptop, date_purchase |-> 336],
     [client_id |-> 1, amount |-> 10, product |-> Laptop, date_purchase |-> 367],
     [client_id |-> 2, amount |-> 10, product |-> Laptop, date_purchase |-> 1]}

\* The fact table of the purchases s[1..n], numbered in order
SalesTable(s) ==
    [i \in DOMAIN s |->
        [purchase_id |-> i, client_id |-> s[i].client_id, amount |-> s[i].amount,
         product |-> s[i].product, date_purchase |-> s[i].date_purchase,
         country |-> IF s[i].client_id = 1 THEN FR ELSE UK,
         name |-> <<"A", "d", "a">>,
         year_month |-> PeriodMonthStr(s[i].date_purchase)]]

InitGold ==
    /\ \/ \E n \in 0..MaxPurchasesPerClient : \E lo, hi, d2 \in GoldDates :
            \E m \in 0..1 :
                /\ lo <= hi
                /\ n = 0 => lo = 1 /\ hi = 1
                /\ n = 1 => lo = hi
                /\ m = 0 => d2 = 1
                /\ fact_table = FactTable(n, lo, hi, m, d2)
       \/ \E n \in 1..MaxSalesRows : \E s \in [1..n -> SalesRows] :
            fact_table = SalesTable(s)
    /\ gold_pc = "ready"
    /\ kpi_global = <<>>
    /\ client_behavior = <<>>
    /\ gold_err = "none"
    /\ agg_country = <<>>
    /\ agg_product = <<>>
    /\ agg_monthly = <<>>
    /\ spark_gold_pc = "ready"
    /\ product_stats = <<>>
    /\ monthly_sales = <<>>
    /\ SilverIdle
    /\ SparkIdle
    /\ RestIdle

NextGold ==
    \/ AggregateKpiGlobal
    \/ AggregateClientBehavior
    \/ AggregateByCountry
    \/ AggregateByProduct
    \/ AggregateByTimeMonthly
    \/ BuildProductStats
    \/ BuildMonthlySales

SpecGold == InitGold /\ [][NextGold]_vars

----------------------------------------------------------------------------
(* The gold flow (flows/gold_ingestion.py, gold_aggregation_flow): the fact  *)
(* and dimension tables, the aggregations that only the flow calls, and the  *)
(* flow itself.  The fact columns week, day_of_week, day_name and month_name *)
(* are left out: no aggregation reads them.                                  *)

\* The day of the month of day d, counted from the first day of month m of year y
RECURSIVE DayOfMonthFrom(_, _, _)
DayOfMonthFrom(d, y, m) ==
    IF d <= DaysInMonth(y, m) THEN d
    ELSE DayOfMonthFrom(d - DaysInMonth(y, m),
                        IF m = 12 THEN y + 1 ELSE y,
                        IF m = 12 THEN 1 ELSE m + 1)

\* str(date): "YYYY-MM-DD"
DateStr(d) ==
    PeriodMonthStr(d) \o <<"-">> \o ZeroPad(DayOfMonthFrom(d, FirstYear, 1), 2)

\* str(Period("W")): the Monday and the Sunday of the week of d (day 1 is a Monday)
PeriodWeekStr(d) ==
    LET monday == d - ((d - 1) % 7)
    IN  DateStr(monday) \o <<"/">> \o DateStr(monday + 6)

\* Series.dt.quarter of a month
QuarterOf(m) == ((m - 1) \div 3) + 1

\* The client columns of a purchase that no client matches
NoClient ==
    [name |-> NaNStr, email |-> NaNStr, country |-> NaNStr, date_inscription |-> 0]

\* One row of the merge, with the temporal columns
Joined(p, c) ==
    [purchase_id |-> p.purchase_id, client_id |-> p.client_id,
     amount |-> p.amount, product |-> p.product,
     date_purchase |-> p.date_purchase,
     name |-> c.name, email |-> c.email, country |-> c.country,
     date_inscription |-> c.date_inscription,
     year |-> YearMonthOf(p.date_purchase).year,
     month |-> YearMonthOf(p.date_purchase).month,
     quarter |-> QuarterOf(YearMonthOf(p.date_purchase).month),
     year_month |-> PeriodMonthStr(p.date_purchase),
     year_week |-> PeriodWeekStr(p.date_purchase)]

\* Variant: how="inner", the purchases that no client matches are left out
RECURSIVE MergeInnerFrom(_, _, _)
MergeInnerFrom(df_purchases, df_clients, i) ==
    IF i > Len(df_purchases) THEN <<>>
    ELSE LET m == SelectSeq(df_clients,
                            LAMBDA c : c.client_id = df_purchases[i].client_id)
         IN  [j \in 1..Len(m) |-> Joined(df_purchases[i], m[j])]
             \o MergeInnerFrom(df_purchases, df_clients, i + 1)

\* df_purchases.merge(df_clients, on="client_id", how="left") from row i on
RECURSIVE MergeLeftFrom(_, _, _)
MergeLeftFrom(df_purchases, df_clients, i) ==
    IF i > Len(df_purchases) THEN <<>>
    ELSE LET m == SelectSeq(df_clients,
                            LAMBDA c : c.client_id = df_purchases[i].client_id)
         IN  (IF m = <<>> THEN <<Joined(df_purchases[i], NoClient)>>
              ELSE [j \in 1..Len(m) |-> Joined(df_purchases[i], m[j])])
             \o MergeLeftFrom(df_purchases, df_clients, i + 1)

create_fact_purchases(df_purchases, df_clients) ==
    MergeLeftFrom(df_purchases, df_clients, 1)

\* Thresholds of client_segment, in days since the inscription
NewClientDays == 90
LoyalClientDays == 365

client_segment(days) ==
    IF days < NewClientDays THEN "New"
    ELSE IF days < LoyalClientDays THEN "Active"
    ELSE "Loyal"

\* create_dimension_clients when pd.Timestamp.now() falls on day today
create_dimension_clients(df_clients, today) ==
    [i \in 1..Len(df_clients) |->
        LET c == df_clients[i]
            ym == YearMonthOf(c.date_inscription)
        IN  [client_id |-> c.client_id, name |-> c.name, email |-> c.email,
             country |-> c.country, date_inscription |-> c.date_inscription,
             inscription_year |-> ym.year,
             inscription_month |-> ym.month,
             inscription_quarter |-> QuarterOf(ym.month),
             client_age_days |-> today - c.date_inscription,
             client_segment |-> client_segment(today - c.date_inscription)]]

\* df_purchases[["product"]].drop_duplicates(), numbered from 1
create_dimension_products(df_purchases) ==
    LET d == DropDuplicates(df_purchases, "product")
    IN  [i \in 1..Len(d) |-> [product |-> d[i].product, product_id |-> i]]

\* The window of the moving averages, in rows
RollingWindow == 7

\* rolling(window=7, min_periods=1).mean() of a column at position i
RollingMean7(rows, col, i) ==
    LET from == IF i > RollingWindow THEN i - RollingWindow + 1 ELSE 1
    IN  [num |-> SumCol(SubSeq(rows, from, i), col), den |-> i - from + 1]

aggregate_by_time_daily(df) ==
    LET keys == Ascending({df[i].date_purchase : i \in 1..Len(df)})
        rows == [i \in 1..Len(keys) |->
                    LET g == Group(df, "date_purchase", keys[i])
                    IN  [date |-> keys[i],
                         daily_revenue |-> SumAmount(g),
                         avg_transaction_value |-> Mean(g),
                         daily_transactions |-> Len(g),
                         daily_unique_clients |-> NUnique(g, "client_id")]]
    IN  [i \in 1..Len(rows) |->
            [date |-> rows[i].date,
             daily_revenue |-> rows[i].daily_revenue,
             avg_transaction_value |-> rows[i].avg_transaction_value,
             daily_transactions |-> rows[i].daily_transactions,
             daily_unique_clients |-> rows[i].daily_unique_clients,
             revenue_ma7 |-> RollingMean7(rows, "daily_revenue", i),
             transactions_ma7 |-> RollingMean7(rows, "daily_transactions", i)]]

aggregate_by_time_weekly(df) ==
    LET keys == GroupKeysStr(df, "year_week")
    IN  [i \in 1..Len(keys) |->
            LET g == Group(df, "year_week", keys[i])
            IN  [year_week |-> keys[i],
                 weekly_revenue |-> SumAmount(g),
                 avg_transaction_value |-> Mean(g),
                 weekly_transactions |-> Len(g),
                 weekly_unique_clients |-> NUnique(g, "client_id"),
                 weekly_unique_products |-> NUnique(g, "product")]]

\* quarterly_agg["year"].astype(str) + "-Q" + quarterly_agg["quarter"].astype(str)
YearQuarterStr(y, q) == ZeroPad(y, 4) \o <<"-", "Q">> \o ZeroPad(q, 1)

\* groupby(["year", "quarter"]): the key (y, q) is the number 4 * y + q - 1
aggregate_by_time_quarterly(df) ==
    LET keys == Ascending({4 * df[i].year + df[i].quarter - 1 : i \in 1..Len(df)})
        rows == [i \in 1..Len(keys) |->
                    LET g == SelectSeq(df, LAMBDA r :
                                 4 * r.year + r.quarter - 1 = keys[i])
                    IN  [year |-> keys[i] \div 4,
                         quarter |-> (keys[i] % 4) + 1,
                         quarterly_revenue |-> SumAmount(g),
                         avg_transaction_value |-> Mean(g),
                         quarterly_transactions |-> Len(g),
                         quarterly_unique_clients |-> NUnique(g, "client_id")]]
    IN  [i \in 1..Len(rows) |->
            [year |-> rows[i].year,
             quarter |-> rows[i].quarter,
             quarterly_revenue |-> rows[i].quarterly_revenue,
             avg_transaction_value |-> rows[i].avg_transaction_value,
             quarterly_transactions |-> rows[i].quarterly_transactions,
             quarterly_unique_clients |-> rows[i].quarterly_unique_clients,
             year_quarter |-> YearQuarterStr(rows[i].year, rows[i].quarter),
             revenue_qoq_growth_pct |-> PctChange(rows, "quarterly_revenue", i)]]

\* aggregate_statistical_distributions on a fact table with rows; the columns std,
\* skewness and kurtosis are left out
aggregate_statistical_distributions(df) ==
    <<[metric |-> "Transaction Amount",
       mean |-> Mean(df),
       median |-> [num |-> Quantile4(df, 2), den |-> 4],
       min |-> Min({df[i].amount : i \in 1..Len(df)}),
       max |-> Max({df[i].amount : i \in 1..Len(df)}),
       q25 |-> [num |-> Quantile4(df, 1), den |-> 4],
       q75 |-> [num |-> Quantile4(df, 3), den |-> 4]]>>

\* Variant: aggfunc="count", each cell the number of purchases
country_product_count_matrix(df) ==
    LET countries == GroupKeysStr(df, "country")
        matched == SelectSeq(df, LAMBDA r : r.country # NaNStr)
        columns == GroupKeysStr(matched, "product")
    IN  [i \in 1..Len(countries) |->
            [country |-> countries[i],
             columns |-> columns,
             revenue |-> [j \in 1..Len(columns) |->
                 Len(SelectSeq(df, LAMBDA r :
                     r.country = countries[i] /\ r.product = columns[j]))]]]

\* pivot_table(index="country", columns="product", values="amount",
\*             aggfunc="sum", fill_value=0).reset_index()
aggregate_country_product_matrix(df) ==
    LET countries == GroupKeysStr(df, "country")
        matched == SelectSeq(df, LAMBDA r : r.country # NaNStr)
        columns == GroupKeysStr(matched, "product")
    IN  [i \in 1..Len(countries) |->
            [country |-> countries[i],
             columns |-> columns,
             revenue |-> [j \in 1..Len(columns) |->
                 SumAmount(SelectSeq(df, LAMBDA r :
                     r.country = countries[i] /\ r.product = columns[j]))]]]

\* Variant: the rows are added to those the object already holds
PutObjectAppend(bucket, name, df) ==
    [bucket EXCEPT ![name] = Object(@.rows \o df)]

\* client.put_object(bucket, name, ...): the object is created or replaced
PutObject(bucket, name, df) == [bucket EXCEPT ![name] = Object(df)]

\* An exception leaves the gold flow
GoldRaise(e) ==
    /\ gold_pc' = "failed"
    /\ gold_err' = e

\* load_data_from_silver of both objects, the fact and dimension tables, and
\* their three save_to_gold
GoldCreateTables ==
    /\ gold_pc = "create_tables"
    /\ IF ~silver.purchases.present \/ ~silver.clients.present
       THEN /\ GoldRaise("S3Error")
            /\ UNCHANGED <<fact_table, gold>>
       ELSE LET df_purchases == silver.purchases.rows
                df_clients == silver.clients.rows
                fact == create_fact_purchases(df_purchases, df_clients)
            IN  /\ fact_table' = fact
                /\ gold' = PutObject(
                             PutObject(
                               PutObject(gold, "fact_purchases", fact),
                               "dim_clients",
                               create_dimension_clients(df_clients, Today)),
                             "dim_products",
                             create_dimension_products(df_purchases))
                /\ gold_pc' = "kpi"
                /\ UNCHANGED gold_err
    /\ UNCHANGED <<kpi_global, client_behavior, agg_results, spark_gold_vars,
                   silver_vars, spark_silver_vars, main_vars, mongo_vars,
                   run_vars>>

GoldKpiGlobal ==
    /\ gold_pc = "kpi"
    /\ LET res == aggregate_kpi_global(fact_table)
       IN  IF res.raised # "none"
           THEN /\ GoldRaise(res.raised)
                /\ UNCHANGED <<kpi_global, gold>>
           ELSE /\ kpi_global' = res.kpis
                /\ gold' = PutObject(gold, "kpi_global", res.kpis)
                /\ gold_pc' = "by_country"
                /\ UNCHANGED gold_err
    /\ UNCHANGED <<fact_table, client_behavior, agg_results, spark_gold_vars,
                   silver_vars, spark_silver_vars, main_vars, mongo_vars,
                   run_vars>>

GoldByCountry ==
    /\ gold_pc = "by_country"
    /\ agg_country' \in SortedByRevenue(CountryRows(fact_table))
    /\ gold' = PutObject(gold, "agg_by_country", agg_country')
    /\ gold_pc' = "by_product"
    /\ UNCHANGED <<fact_table, kpi_global, client_behavior, gold_err,
                   agg_product, agg_monthly, spark_gold_vars,
                   silver_vars, spark_silver_vars, main_vars, mongo_vars,
                   run_vars>>

GoldByProduct ==
    /\ gold_pc = "by_product"
    /\ agg_product' \in SortedByRevenue(ProductRows(fact_table))
    /\ gold' = PutObject(gold, "agg_by_product", agg_product')
    /\ gold_pc' = "by_day"
    /\ UNCHANGED <<fact_table, kpi_global, client_behavior, gold_err,
                   agg_country, agg_monthly, spark_gold_vars,
                   silver_vars, spark_silver_vars, main_vars, mongo_vars,
                   run_vars>>

GoldByDay ==
    /\ gold_pc = "by_day"
    /\ gold' = PutObject(gold, "agg_by_day", aggregate_by_time_daily(fact_table))
    /\ gold_pc' = "by_week"
    /\ UNCHANGED <<fact_table, kpi_global, client_behavior, gold_err,
                   agg_results, spark_gold_vars,
                   silver_vars, spark_silver_vars, main_vars, mongo_vars,
                   run_vars>>

GoldByWeek ==
    /\ gold_pc = "by_week"
    /\ gold' = PutObject(gold, "agg_by_week", aggregate_by_time_weekly(fact_table))
    /\ gold_pc' = "by_month"
    /\ UNCHANGED <<fact_table, kpi_global, client_behavior, gold_err,
                   agg_results, spark_gold_vars,
                   silver_vars, spark_silver_vars, main_vars, mongo_vars,
                   run_vars>>

GoldByMonth ==
    /\ gold_pc = "by_month"
    /\ agg_monthly' = aggregate_by_time_monthly(fact_table)
    /\ gold' = PutObject(gold, "agg_by_month", agg_monthly')
    /\ gold_pc' = "by_quarter"
    /\ UNCHANGED <<fact_table, kpi_global, client_behavior, gold_err,
                   agg_country, agg_product, spark_gold_vars,
                   silver_vars, spark_silver_vars, main_vars, mongo_vars,
                   run_vars>>

GoldByQuarter ==
    /\ gold_pc = "by_quarter"
    /\ gold' = PutObject(gold, "agg_by_quarter",
                         aggregate_by_time_quarterly(fact_table))
    /\ gold_pc' = "behavior"
    /\ UNCHANGED <<fact_table, kpi_global, client_behavior, gold_err,
                   agg_results, spark_gold_vars,
                   silver_vars, spark_silver_vars, main_vars, mongo_vars,
                   run_vars>>

GoldClientBehavior ==
    /\ gold_pc = "behavior"
    /\ \E outcome \in BehaviorOutcomes(fact_table) :
        IF outcome # "none"
        THEN /\ GoldRaise(outcome)
             /\ UNCHANGED <<client_behavior, gold>>
        ELSE /\ client_behavior' \in SortedBySpent(BehaviorRows(fact_table))
             /\ gold' = PutObject(gold, "client_behavior_rfm", client_behavior')
             /\ gold_pc' = "distributions"
             /\ UNCHANGED gold_err
    /\ UNCHANGED <<fact_table, kpi_global, agg_results, spark_gold_vars,
                   silver_vars, spark_silver_vars, main_vars, mongo_vars,
                   run_vars>>

GoldDistributions ==
    /\ gold_pc = "distributions"
    /\ gold' = PutObject(gold, "statistical_distributions",
                         aggregate_statistical_distributions(fact_table))
    /\ gold_pc' = "matrix"
    /\ UNCHANGED <<fact_table, kpi_global, client_behavior, gold_err,
                   agg_results, spark_gold_vars,
                   silver_vars, spark_silver_vars, main_vars, mongo_vars,
                   run_vars>>

GoldMatrix ==
    /\ gold_pc = "matrix"
    /\ gold' = PutObject(gold, "matrix_country_product",
                         aggregate_country_product_matrix(fact_table))
    /\ gold_pc' = "done"
    /\ UNCHANGED <<fact_table, kpi_global, client_behavior, gold_err,
                   agg_results, spark_gold_vars,
                   silver_vars, spark_silver_vars, main_vars, mongo_vars,
                   run_vars>>

----------------------------------------------------------------------------
(* The Spark gold flow (simple_gold_flow_spark) and the start of the Spark   *)
(* flows.  Creating the Spark session, with its S3 connector, can fail.      *)

\* get_spark_session() of the Spark silver flow
SparkSilverSession ==
    /\ spark_pc = "session"
    /\ \/ spark_pc' = "load_clients" /\ UNCHANGED spark_err
       \/ spark_pc' = "failed" /\ spark_err' = "SparkError"
    /\ UNCHANGED <<spark_clients_clean, spark_clients_stats, spark_valid_ids,
                   spark_purchases_clean, spark_purchases_stats,
                   silver_vars, gold_vars, rest_vars>>

\* get_spark_session() of the Spark gold flow
SparkGoldSession ==
    /\ spark_gold_pc = "session"
    /\ spark_gold_pc' \in {"build_client_summary", "failed"}
    /\ UNCHANGED <<fact_table, gold_pc, kpi_global, client_behavior, gold_err,
                   agg_results, product_stats, monthly_sales, silver_vars,
                   spark_silver_vars, rest_vars>>

\* One row of the client summary: the client and the statistics of its
\* purchases, 0 where it has none (na.fill(0) fills the numeric columns); a
\* missing client_id matches no purchase
ClientSummaryRow(c, purchases) ==
    LET g == IF c.client_id = NullInt THEN <<>>
             ELSE Group(purchases, "client_id", c.client_id)
        dates == {g[i].date_purchase : i \in 1..Len(g)}
    IN  [client_id |-> c.client_id, name |-> c.name, email |-> c.email,
         country |-> c.country, date_inscription |-> c.date_inscription,
         total_achats |-> IF g = <<>> THEN Round2(0, 1)
                          ELSE Round2(SumAmount(g), 1),
         panier_moyen |-> IF g = <<>> THEN Round2(0, 1)
                          ELSE Round2(SumAmount(g), Len(g)),
         nb_achats |-> Len(g),
         premier_achat |-> IF g = <<>> THEN NullInt ELSE Min(dates),
         dernier_achat |-> IF g = <<>> THEN NullInt ELSE Max(dates)]

\* build_client_summary: the left join, whose rows come in any order
ClientSummaries(clients, purchases) ==
    {[i \in 1..Len(clients) |-> ClientSummaryRow(clients[p[i]], purchases)] :
        p \in Permutations(1..Len(clients))}

\* spark.read.parquet of a path that does not exist raises
SparkGoldRaise == spark_gold_pc' = "failed"

SparkBuildClientSummary ==
    /\ spark_gold_pc = "build_client_summary"
    /\ IF ~silver.clients_spark.present \/ ~silver.purchases_spark.present
       THEN SparkGoldRaise /\ UNCHANGED gold
       ELSE /\ \E summary \in ClientSummaries(silver.clients_spark.rows,
                                              silver.purchases_spark.rows) :
                 gold' = PutObject(gold, "gold_client_summary_spark", summary)
            /\ spark_gold_pc' = "build_product_stats"
    /\ UNCHANGED <<fact_table, gold_pc, kpi_global, client_behavior, gold_err,
                   agg_results, product_stats, monthly_sales, silver_vars,
                   spark_silver_vars, main_vars, mongo_vars, run_vars>>

SparkBuildProductStats ==
    /\ spark_gold_pc = "build_product_stats"
    /\ IF ~silver.purchases_spark.present
       THEN SparkGoldRaise /\ UNCHANGED <<gold, product_stats>>
       ELSE /\ product_stats' \in OrderedByRevenueDesc(
                                     ProductStatsRows(silver.purchases_spark.rows))
            /\ gold' = PutObject(gold, "gold_product_stats_spark", product_stats')
            /\ spark_gold_pc' = "build_monthly_sales"
    /\ UNCHANGED <<fact_table, gold_pc, kpi_global, client_behavior, gold_err,
                   agg_results, monthly_sales, silver_vars,
                   spark_silver_vars, main_vars, mongo_vars, run_vars>>

SparkBuildMonthlySales ==
    /\ spark_gold_pc = "build_monthly_sales"
    /\ IF ~silver.purchases_spark.present
       THEN SparkGoldRaise /\ UNCHANGED <<gold, monthly_sales>>
       ELSE /\ monthly_sales' = build_monthly_sales(silver.purchases_spark.rows)
            /\ gold' = PutObject(gold, "gold_monthly_sales_spark", monthly_sales')
            /\ spark_gold_pc' = "done"
    /\ UNCHANGED <<fact_table, gold_pc, kpi_global, client_behavior, gold_err,
                   agg_results, product_stats, silver_vars,
                   spark_silver_vars, main_vars, mongo_vars, run_vars>>

----------------------------------------------------------------------------
(* run_pipeline.main: the stages, each a command that main runs and waits    *)
(* for.  The rows that the generation scripts draw and the bronze stage      *)
(* uploads are chosen when the bronze stage succeeds.                        *)

Stages == <<"gen_clients", "gen_purchases", "bronze", "silver_pandas",
            "silver_spark", "gold_pandas", "gold_spark">>

SparkStages == {"silver_spark", "gold_spark"}

StageIndex(stage) == CHOOSE i \in 1..Len(Stages) : Stages[i] = stage

\* Where main goes on after a stage: the next call of run_command, or the summary
NextStage(stage) ==
    IF StageIndex(stage) = Len(Stages) THEN "summary"
    ELSE Stages[StageIndex(stage) + 1]

\* Variant: main goes on after the failure of any stage
AfterFailureContinue(stage) == NextStage(stage)

\* if not success: sys.exit(1), or for a Spark stage the message and the next stage
AfterFailure(stage) ==
    IF stage \in SparkStages THEN NextStage(stage) ELSE "exited"

HasStarted(stage) == \E i \in 1..Len(started) : started[i] = stage

\* run_command returned: main records the outcome and moves on
Returns(stage, success) ==
    /\ failed' = IF success THEN failed ELSE failed \cup {stage}
    /\ main_pc' = IF success THEN NextStage(stage) ELSE AfterFailure(stage)

\* The two generation scripts, whose files the bronze stage reads
GenerateClients ==
    /\ main_pc = "gen_clients"
    /\ started' = Append(started, "gen_clients")
    /\ \E success \in BOOLEAN : Returns("gen_clients", success)
    /\ UNCHANGED <<silver_vars, gold_vars, spark_silver_vars, store_vars>>

GeneratePurchases ==
    /\ main_pc = "gen_purchases"
    /\ started' = Append(started, "gen_purchases")
    /\ \E success \in BOOLEAN : Returns("gen_purchases", success)
    /\ UNCHANGED <<silver_vars, gold_vars, spark_silver_vars, store_vars>>

\* flows/bronze_ingestion.py uploads the two generated files
BronzeIngestion ==
    /\ main_pc = "bronze"
    /\ started' = Append(started, "bronze")
    /\ \E success \in BOOLEAN :
        /\ Returns("bronze", success)
        /\ IF success
           THEN /\ bronze_clients' \in FlowClientTables
                /\ bronze_purchases' \in FlowPurchaseTables
           ELSE UNCHANGED <<bronze_clients, bronze_purchases>>
    /\ UNCHANGED <<silver_locals, silver, gold_vars, spark_silver_vars,
                   store_vars>>

\* silver_transformation_flow is entered: nothing is loaded or cleaned yet
BeginSilverFlow ==
    /\ pc' = "load_clients"
    /\ df_clients_raw' = NoTable
    /\ df_purchases_raw' = NoTable
    /\ df_clients_clean' = NoTable
    /\ clients_stats' = NoStats
    /\ valid_client_ids' = {}
    /\ df_purchases_clean' = NoTable
    /\ purchases_stats' = NoStats
    /\ err' = "none"

\* gold_aggregation_flow is entered
BeginGoldFlow ==
    /\ gold_pc' = "create_tables"
    /\ fact_table' = <<>>
    /\ kpi_global' = <<>>
    /\ client_behavior' = <<>>
    /\ gold_err' = "none"
    /\ agg_country' = <<>>
    /\ agg_product' = <<>>
    /\ agg_monthly' = <<>>

\* python3 flows/silver_ingestion.py is started
StartSilverPandas ==
    /\ main_pc = "silver_pandas"
    /\ ~HasStarted("silver_pandas")
    /\ started' = Append(started, "silver_pandas")
    /\ BeginSilverFlow
    /\ UNCHANGED <<bronze_clients, bronze_purchases, silver, gold_vars,
                   spark_silver_vars, main_pc, failed, store_vars>>

\* ... and has exited: with a failure when the flow raised
EndSilverPandas ==
    /\ main_pc = "silver_pandas"
    /\ HasStarted("silver_pandas")
    /\ pc \in {"done", "failed"}
    /\ Returns("silver_pandas", pc = "done")
    /\ UNCHANGED <<silver_vars, gold_vars, spark_silver_vars, started,
                   store_vars>>

StartSilverSpark ==
    /\ main_pc = "silver_spark"
    /\ ~HasStarted("silver_spark")
    /\ started' = Append(started, "silver_spark")
    /\ spark_pc' = "session"
    /\ spark_clients_clean' = NoTable
    /\ spark_clients_stats' = NoStats
    /\ spark_valid_ids' = {}
    /\ spark_purchases_clean' = NoTable
    /\ spark_purchases_stats' = NoStats
    /\ spark_err' = "none"
    /\ UNCHANGED <<silver_vars, gold_vars, main_pc, failed, store_vars>>

EndSilverSpark ==
    /\ main_pc = "silver_spark"
    /\ HasStarted("silver_spark")
    /\ spark_pc \in {"done", "failed"}
    /\ Returns("silver_spark", spark_pc = "done")
    /\ UNCHANGED <<silver_vars, gold_vars, spark_silver_vars, started,
                   store_vars>>

StartGoldPandas ==
    /\ main_pc = "gold_pandas"
    /\ ~HasStarted("gold_pandas")
    /\ started' = Append(started, "gold_pandas")
    /\ BeginGoldFlow
    /\ UNCHANGED <<silver_vars, spark_gold_vars, spark_silver_vars, main_pc,
                   failed, store_vars>>

EndGoldPandas ==
    /\ main_pc = "gold_pandas"
    /\ HasStarted("gold_pandas")
    /\ gold_pc \in {"done", "failed"}
    /\ Returns("gold_pandas", gold_pc = "done")
    /\ UNCHANGED <<silver_vars, gold_vars, spark_silver_vars, started,
                   store_vars>>

StartGoldSpark ==
    /\ main_pc = "gold_spark"
    /\ ~HasStarted("gold_spark")
    /\ started' = Append(started, "gold_spark")
    /\ spark_gold_pc' = "session"
    /\ product_stats' = <<>>
    /\ monthly_sales' = <<>>
    /\ UNCHANGED <<silver_vars, fact_table, gold_pc, kpi_global, client_behavior,
                   gold_err, agg_results, spark_silver_vars, main_pc, failed,
                   store_vars>>

EndGoldSpark ==
    /\ main_pc = "gold_spark"
    /\ HasStarted("gold_spark")
    /\ spark_gold_pc \in {"done", "failed"}
    /\ Returns("gold_spark", spark_gold_pc = "done")
    /\ UNCHANGED <<silver_vars, gold_vars, spark_silver_vars, started,
                   store_vars>>

\* A run of main on empty buckets
InitPipeline ==
    /\ bronze_clients = <<>>
    /\ bronze_purchases = <<>>
    /\ pc = "idle"
    /\ valid_client_ids = {}
    /\ SilverFresh
    /\ GoldIdle
    /\ SparkIdle
    /\ main_pc = "gen_clients"
    /\ started = <<>>
    /\ failed = {}
    /\ StoresIdle

NextPipeline ==
    \/ GenerateClients
    \/ GeneratePurchases
    \/ BronzeIngestion
    \/ StartSilverPandas
    \/ LoadClients
    \/ CheckInitialClients
    \/ CleanClients
    \/ CheckFinalClients
    \/ SaveClients
    \/ LoadPurchases
    \/ CheckInitialPurchases
    \/ CleanPurchases
    \/ CheckFinalPurchases
    \/ SavePurchases
    \/ EndSilverPandas
    \/ StartSilverSpark
    \/ SparkSilverSession
    \/ SparkLoadClients
    \/ SparkCleanClients
    \/ SparkCheckFinalClients
    \/ SparkSaveClients
    \/ SparkLoadPurchases
    \/ SparkCleanPurchases
    \/ SparkCheckFinalPurchases
    \/ SparkSavePurchases
    \/ EndSilverSpark
    \/ StartGoldPandas
    \/ GoldCreateTables
    \/ GoldKpiGlobal
    \/ GoldByCountry
    \/ GoldByProduct
    \/ GoldByDay
    \/ GoldByWeek
    \/ GoldByMonth
    \/ GoldByQuarter
    \/ GoldClientBehavior
    \/ GoldDistributions
    \/ GoldMatrix
    \/ EndGoldPandas
    \/ StartGoldSpark
    \/ SparkGoldSession
    \/ SparkBuildClientSummary
    \/ SparkBuildProductStats
    \/ SparkBuildMonthlySales
    \/ EndGoldSpark

SpecPipeline == InitPipeline /\ [][NextPipeline]_vars

----------------------------------------------------------------------------
(* The MongoDB ingestion flow (flows/mongodb_ingestion.py).  A document of a *)
(* data collection is [id, row]: the generated _id and the record inserted.  *)
(* The clock counts ticks; every task takes at least one.                    *)

\* retries=2 of the load tasks
TaskRetries == 2

\* Variant: the documents of the collection stay
DeleteNone(docs) == docs

\* collection.delete_many({})
DeleteMany(docs) == <<>>

\* A unique index on key admits one more document with this row
Admits(m, coll, key, row) ==
    \/ [coll |-> coll, key |-> key, unique |-> TRUE] \notin m.indexes
    \/ \A i \in 1..Len(m[coll]) : m[coll][i].row[key] # row[key]

\* collection.insert_many(records) from record i on: the documents get fresh ids,
\* in order, until one is refused by a unique index
RECURSIVE InsertManyFrom(_, _, _, _, _)
InsertManyFrom(m, coll, key, records, i) ==
    IF i > Len(records) THEN [mongo |-> m, raised |-> "none"]
    ELSE IF ~Admits(m, coll, key, records[i])
    THEN [mongo |-> m, raised |-> "BulkWriteError"]
    ELSE InsertManyFrom(
             [m EXCEPT ![coll] = Append(@, [id |-> m.next_id, row |-> records[i]]),
                       !.next_id = @ + 1],
             coll, key, records, i + 1)

\* Two documents of the collection agree on key
HasDuplicateKey(docs, key) ==
    \E i, j \in 1..Len(docs) : i # j /\ docs[i].row[key] = docs[j].row[key]

\* create_index(key, unique=True), then create_index of the other keys
CreateIndexes(m, coll, key, others) ==
    IF HasDuplicateKey(m[coll], key)
    THEN [mongo |-> m, raised |-> "DuplicateKeyError"]
    ELSE [mongo |-> [m EXCEPT !.indexes = @
                        \cup {[coll |-> coll, key |-> key, unique |-> TRUE]}
                        \cup {[coll |-> coll, key |-> k, unique |-> FALSE] :
                                 k \in others}],
          raised |-> "none"]

\* One attempt of a load task: read the gold object, empty the collection,
\* insert the records if there are any, create the indexes
LoadAttempt(m, bucket, coll, object, key, others) ==
    IF ~bucket[object].present THEN [mongo |-> m, raised |-> "S3Error"]
    ELSE LET records == bucket[object].rows
             emptied == [m EXCEPT ![coll] = DeleteMany(@)]
             inserted == IF records # <<>>
                         THEN InsertManyFrom(emptied, coll, key, records, 1)
                         ELSE [mongo |-> emptied, raised |-> "none"]
         IN  IF inserted.raised # "none" THEN inserted
             ELSE CreateIndexes(inserted.mongo, coll, key, others)

\* The task with its retries: it is run again, as a whole, while it raises
RECURSIVE LoadTask(_, _, _, _, _, _, _)
LoadTask(m, bucket, coll, object, key, others, retries) ==
    LET attempt == LoadAttempt(m, bucket, coll, object, key, others)
    IN  IF attempt.raised = "none" \/ retries = 0 THEN attempt
        ELSE LoadTask(attempt.mongo, bucket, coll, object, key, others, retries - 1)

\* The longest a load task takes, in ticks
MaxElapsed == 2

\* What a load task does to the flow: on success its result joins the results
Loaded(coll, object, key, others, next) ==
    LET task == LoadTask(mongo, gold, coll, object, key, others, TaskRetries)
    IN  /\ mongo' = task.mongo
        /\ \E elapsed \in 1..MaxElapsed :
            /\ now' = now + elapsed
            /\ IF task.raised # "none"
               THEN mongo_pc' = "failed" /\ UNCHANGED results
               ELSE /\ mongo_pc' = next
                    /\ results' = Append(results,
                           [collection |-> coll,
                            count |-> Len(gold[object].rows),
                            elapsed_time |-> elapsed])

MongoLoadClients ==
    /\ mongo_pc = "load_clients"
    /\ Loaded("clients", "gold_client_summary", "client_id",
              {"country", "total_achats"}, "load_products")
    /\ UNCHANGED <<silver_vars, gold_vars, spark_silver_vars, main_vars, gold,
                   run_vars>>

MongoLoadProducts ==
    /\ mongo_pc = "load_products"
    /\ Loaded("products", "gold_product_stats", "product",
              {"chiffre_affaires"}, "load_monthly_sales")
    /\ UNCHANGED <<silver_vars, gold_vars, spark_silver_vars, main_vars, gold,
                   run_vars>>

MongoLoadMonthlySales ==
    /\ mongo_pc = "load_monthly_sales"
    /\ Loaded("monthly_sales", "gold_monthly_sales", "mois", {}, "update_metadata")
    /\ UNCHANGED <<silver_vars, gold_vars, spark_silver_vars, main_vars, gold,
                   run_vars>>

\* update_one({"_id": id}, {"$set": fields}, upsert=True): the fields of the first
\* document with this id are set, or a document of these fields is inserted
UpsertOne(docs, id, fields) ==
    IF \E i \in 1..Len(docs) : docs[i].id = id
    THEN LET first == Min({i \in 1..Len(docs) : docs[i].id = id})
         IN  [docs EXCEPT ![first] =
                 [k \in DOMAIN @ \cup DOMAIN fields |->
                     IF k \in DOMAIN fields THEN fields[k] ELSE @[k]]]
    ELSE Append(docs, [k \in DOMAIN fields \cup {"id"} |->
                          IF k = "id" THEN id ELSE fields[k]])

\* The metadata that update_metadata writes at instant utcnow
Metadata(res, utcnow) ==
    [last_refresh |-> utcnow,
     total_refresh_time_seconds |-> SumCol(res, "elapsed_time"),
     total_records_loaded |-> SumCol(res, "count"),
     collections_refreshed |-> [i \in 1..Len(res) |-> res[i].collection],
     details |-> res]

MongoUpdateMetadata ==
    /\ mongo_pc = "update_metadata"
    /\ mongo' = [mongo EXCEPT
                    !.metadata = UpsertOne(@, "refresh_info", Metadata(results, now))]
    /\ now' = now + 1
    /\ mongo_pc' = "done"
    /\ UNCHANGED <<silver_vars, gold_vars, spark_silver_vars, main_vars, gold,
                   results, run_vars>>

----------------------------------------------------------------------------
(* Flows run one after the other, each from its own command, on buckets and  *)
(* a database that keep what earlier runs wrote.                             *)

Ended(p) == p \in {"idle", "done", "failed"}

NoFlowRunning == Ended(pc) /\ Ended(gold_pc) /\ Ended(mongo_pc)

\* The number of flows run in a behaviour
MaxRuns == 2

\* A flow is started: the stores as they are now are remembered
Run(flow) ==
    /\ NoFlowRunning
    /\ Len(runs) < MaxRuns
    /\ runs' = Append(runs, flow)
    /\ prev' = [silver |-> silver, gold |-> gold, mongo |-> mongo]
    /\ UNCHANGED task_run

\* python3 flows/silver_ingestion.py
RunSilverFlow ==
    /\ Run("silver")
    /\ BeginSilverFlow
    /\ UNCHANGED <<bronze_clients, bronze_purchases, silver, gold_vars,
                   spark_silver_vars, main_vars, gold, mongo_vars>>

\* python3 flows/gold_ingestion.py
RunGoldFlow ==
    /\ Run("gold")
    /\ BeginGoldFlow
    /\ UNCHANGED <<silver_vars, spark_gold_vars, spark_silver_vars, main_vars,
                   gold, mongo_vars>>

\* python3 flows/mongodb_ingestion.py
RunMongoFlow ==
    /\ Run("mongo")
    /\ mongo_pc' = "load_clients"
    /\ results' = <<>>
    /\ UNCHANGED <<silver_vars, gold_vars, spark_silver_vars, main_vars, gold,
                   mongo, now>>

\* Bronze objects on which the silver flow succeeds (the second with no cleaned
\* purchase left) or fails, before or after it has saved the clients
RerunBronze ==
    {[clients |-> <<BaseClient>>, purchases |-> <<BasePurchase>>],
     [clients |-> <<BaseClient, [BaseClient EXCEPT !.client_id = Num(2, 0),
                                                   !.email = Str(E_dup)]>>,
      purchases |-> <<BasePurchase,
                      [BasePurchase EXCEPT !.purchase_id = Num(2, 0),
                                           !.client_id = Num(2, 0)]>>],
     [clients |-> <<BaseClient>>,
      purchases |-> <<[BasePurchase EXCEPT !.amount = Num(-5, 0)]>>],
     [clients |-> <<BaseClient>>, purchases |-> <<>>],
     [clients |-> <<>>, purchases |-> <<>>]}

\* The most rows of a gold object that the MongoDB flow reads
MaxMongoRows == 2

\* Rows of gold_client_summary.parquet, gold_product_stats.parquet and
\* gold_monthly_sales.parquet
SummaryRows ==
    {[client_id |-> 1, country |-> FR, total_achats |-> 100],
     [client_id |-> 2, country |-> UK, total_achats |-> 0]}

ProductStatRows == {[product |-> Laptop, chiffre_affaires |-> 100]}

MonthlyRows == {[mois |-> PeriodMonthStr(1)], [mois |-> PeriodMonthStr(32)]}

\* The gold bucket with the three objects that the MongoDB flow reads: present
\* or not, with rows or without, with or without the same key twice
MongoInputs ==
    {[EmptyGold EXCEPT !["gold_client_summary"] = s,
                       !["gold_product_stats"] = p,
                       !["gold_monthly_sales"] = m] :
        s \in {NoObject} \cup {Object(t) : t \in SeqsUpTo(SummaryRows, MaxMongoRows)},
        p \in {NoObject} \cup {Object(t) : t \in SeqsUpTo(ProductStatRows, 1)},
        m \in {Object(t) : t \in [1..2 -> MonthlyRows]}}

\* Silver buckets that an earlier run of the silver flow has left
RerunSilver ==
    {[EmptyBucket EXCEPT !.clients = Object(<<CleanedClient(1, E_a)>>),
                         !.purchases = Object(p)] :
        p \in {<<CleanedPurchase(1, 1)>>,
               <<CleanedPurchase(1, 1), CleanedPurchase(2, 1)>>}}

\* The bronze objects, the silver objects or the objects that the MongoDB flow
\* reads are there
InitRerun ==
    /\ \/ /\ \E b \in RerunBronze :
                /\ bronze_clients = b.clients
                /\ bronze_purchases = b.purchases
          /\ silver = EmptyBucket
          /\ gold = EmptyGold
       \/ /\ bronze_clients = <<>>
          /\ bronze_purchases = <<>>
          /\ silver \in RerunSilver
          /\ gold = EmptyGold
       \/ /\ bronze_clients = <<>>
          /\ bronze_purchases = <<>>
          /\ silver = EmptyBucket
          /\ gold \in MongoInputs
    /\ pc = "idle"
    /\ valid_client_ids = {}
    /\ df_clients_raw = NoTable
    /\ df_purchases_raw = NoTable
    /\ df_clients_clean = NoTable
    /\ clients_stats = NoStats
    /\ df_purchases_clean = NoTable
    /\ purchases_stats = NoStats
    /\ err = "none"
    /\ GoldIdle
    /\ SparkIdle
    /\ MainIdle
    /\ mongo = EmptyMongo
    /\ mongo_pc = "idle"
    /\ results = <<>>
    /\ now = 0
    /\ runs = <<>>
    /\ prev = NoStores
    /\ task_run = NoTaskRun

NextRerun ==
    \/ RunSilverFlow
    \/ LoadClients
    \/ CheckInitialClients
    \/ CleanClients
    \/ CheckFinalClients
    \/ SaveClients
    \/ LoadPurchases
    \/ CheckInitialPurchases
    \/ CleanPurchases
    \/ CheckFinalPurchases
    \/ SavePurchases
    \/ RunGoldFlow
    \/ GoldCreateTables
    \/ GoldKpiGlobal
    \/ GoldByCountry
    \/ GoldByProduct
    \/ GoldByDay
    \/ GoldByWeek
    \/ GoldByMonth
    \/ GoldByQuarter
    \/ GoldClientBehavior
    \/ GoldDistributions
    \/ GoldMatrix
    \/ RunMongoFlow
    \/ MongoLoadClients
    \/ MongoLoadProducts
    \/ MongoLoadMonthlySales
    \/ MongoUpdateMetadata

SpecRerun == InitRerun /\ [][NextRerun]_vars

----------------------------------------------------------------------------
(* The tasks of the flows as their decorators declare them, and a flow run   *)
(* that calls them in order: a task that raises is run again while it has    *)
(* retries left, and the flow raises when it has none.                       *)

\* retries of @task(name=..., retries=...), by task name; 0 where none is given
Retries ==
    [load_from_bronze |-> 2,
     quality_check_initial |-> 0,
     clean_clients_data |-> 0,
     clean_purchases_data |-> 0,
     quality_check_final |-> 0,
     save_to_silver |-> 2,
     spark_load_from_bronze |-> 2,
     spark_quality_check_initial |-> 0,
     spark_clean_clients_data |-> 0,
     spark_clean_purchases_data |-> 0,
     spark_quality_check_final |-> 0,
     spark_save_to_silver |-> 2,
     load_from_silver |-> 2,
     create_fact_table |-> 0,
     create_dimension_clients |-> 0,
     create_dimension_products |-> 0,
     aggregate_kpi_global |-> 0,
     aggregate_by_country |-> 0,
     aggregate_by_product |-> 0,
     aggregate_by_time_daily |-> 0,
     aggregate_by_time_weekly |-> 0,
     aggregate_by_time_monthly |-> 0,
     aggregate_by_time_quarterly |-> 0,
     aggregate_client_behavior |-> 0,
     aggregate_statistical_distributions |-> 0,
     aggregate_country_product_matrix |-> 0,
     save_to_gold |-> 2,
     spark_build_client_summary |-> 0,
     spark_build_product_stats |-> 0,
     spark_build_monthly_sales |-> 0,
     load_clients_to_mongodb |-> 2,
     load_products_to_mongodb |-> 2,
     load_monthly_sales_to_mongodb |-> 2,
     update_metadata |-> 0]

\* The tasks whose body calls the MinIO client, the s3a reader or writer of
\* Spark, or the MongoDB database
IoTasks ==
    {"load_from_bronze", "save_to_silver", "spark_load_from_bronze",
     "spark_save_to_silver", "load_from_silver", "save_to_gold",
     "spark_build_client_summary", "spark_build_product_stats",
     "spark_build_monthly_sales", "load_clients_to_mongodb",
     "load_products_to_mongodb", "load_monthly_sales_to_mongodb",
     "update_metadata"}

\* aggregate, save_to_gold for each of the aggregations, in the flow's order
GoldAggregations ==
    <<"aggregate_kpi_global", "aggregate_by_country", "aggregate_by_product",
      "aggregate_by_time_daily", "aggregate_by_time_weekly",
      "aggregate_by_time_monthly", "aggregate_by_time_quarterly",
      "aggregate_client_behavior", "aggregate_statistical_distributions",
      "aggregate_country_product_matrix">>

\* The task calls of each flow, in order
FlowCalls ==
    [silver |->
        <<"load_from_bronze", "quality_check_initial", "clean_clients_data",
          "quality_check_final", "save_to_silver",
          "load_from_bronze", "quality_check_initial", "clean_purchases_data",
          "quality_check_final", "save_to_silver">>,
     silver_spark |->
        <<"spark_load_from_bronze", "spark_quality_check_initial",
          "spark_clean_clients_data", "spark_quality_check_final",
          "spark_save_to_silver",
          "spark_load_from_bronze", "spark_quality_check_initial",
          "spark_clean_purchases_data", "spark_quality_check_final",
          "spark_save_to_silver">>,
     gold |->
        <<"load_from_silver", "load_from_silver",
          "create_fact_table", "create_dimension_clients",
          "create_dimension_products",
          "save_to_gold", "save_to_gold", "save_to_gold">>
        \o [i \in 1..(2 * Len(GoldAggregations)) |->
               IF i % 2 = 1 THEN GoldAggregations[(i + 1) \div 2]
               ELSE "save_to_gold"],
     gold_spark |->
        <<"spark_build_client_summary", "spark_build_product_stats",
          "spark_build_monthly_sales">>,
     mongo |->
        <<"load_clients_to_mongodb", "load_products_to_mongodb",
          "load_monthly_sales_to_mongodb", "update_metadata">>]

\* The task that the flow run in progress is at
CurrentTask == FlowCalls[task_run.flow][task_run.call]

\* Variant: every task is given two retries
MayRetryAnyTask(task, attempt) == attempt <= 2

\* A raised task is run again while it has run no more often than its retries
MayRetry(task, attempt) == attempt <= Retries[task]

\* python3 flows/<flow>.py: the flow calls its first task
StartFlowRun ==
    /\ task_run.flow = "none"
    /\ \E f \in DOMAIN FlowCalls :
        task_run' = [flow |-> f, call |-> 1, attempt |-> 1, state |-> "Running"]
    /\ UNCHANGED <<silver_vars, gold_vars, spark_silver_vars, main_vars, gold,
                   mongo_vars, runs, prev>>

\* The task returns: the flow calls the next one, or returns after the last
TaskReturns ==
    /\ task_run.state = "Running"
    /\ task_run' =
        IF task_run.call = Len(FlowCalls[task_run.flow])
        THEN [task_run EXCEPT !.state = "Completed"]
        ELSE [task_run EXCEPT !.call = @ + 1, !.attempt = 1]
    /\ UNCHANGED <<silver_vars, gold_vars, spark_silver_vars, main_vars, gold,
                   mongo_vars, runs, prev>>

\* The task raises: it awaits its retry, or the flow raises with it
TaskRaises ==
    /\ task_run.state = "Running"
    /\ task_run' =
        IF MayRetry(CurrentTask, task_run.attempt)
        THEN [task_run EXCEPT !.state = "AwaitingRetry"]
        ELSE [task_run EXCEPT !.state = "Failed"]
    /\ UNCHANGED <<silver_vars, gold_vars, spark_silver_vars, main_vars, gold,
                   mongo_vars, runs, prev>>

\* The task is run again
TaskRetry ==
    /\ task_run.state = "AwaitingRetry"
    /\ task_run' = [task_run EXCEPT !.state = "Running", !.attempt = @ + 1]
    /\ UNCHANGED <<silver_vars, gold_vars, spark_silver_vars, main_vars, gold,
                   mongo_vars, runs, prev>>

\* The process of the flow exits
FlowRunEnds ==
    /\ task_run.state \in {"Completed", "Failed"}
    /\ task_run' = NoTaskRun
    /\ UNCHANGED <<silver_vars, gold_vars, spark_silver_vars, main_vars, gold,
                   mongo_vars, runs, prev>>

InitRetry ==
    /\ bronze_clients = <<>>
    /\ bronze_purchases = <<>>
    /\ pc = "idle"
    /\ valid_client_ids = {}
    /\ SilverFresh
    /\ GoldIdle
    /\ SparkIdle
    /\ RestIdle

NextRetry ==
    \/ StartFlowRun
    \/ TaskReturns
    \/ TaskRaises
    \/ TaskRetry
    \/ FlowRunEnds

SpecRetry == InitRetry /\ [][NextRetry]_vars

----------------------------------------------------------------------------
(* The gold flow on silver objects of any content that the silver flows can  *)
(* have left: unique client ids, and purchases of clients that the clients   *)
(* object may not hold (the two objects may come from different runs).       *)

\* The most purchases of the silver object
MaxFactPurchases == 3

\* Silver clients: client 1 of FR, client 2 of UK, or both, in either order
SilverClientTables ==
    {<<>>,
     <<CleanedClient(1, E_a)>>,
     <<[CleanedClient(2, E_dup) EXCEPT !.country = UK]>>,
     <<CleanedClient(1, E_a), [CleanedClient(2, E_dup) EXCEPT !.country = UK]>>,
     <<[CleanedClient(2, E_dup) EXCEPT !.country = UK], CleanedClient(1, E_a)>>}

\* What a silver purchase holds besides its purchase_id: clients 1, 2 and 3 (the
\* last in no clients object), two products, two amounts, three months
SilverPurchaseRows ==
    {[client_id |-> 1, amount |-> 10, product |-> Laptop, date_purchase |-> 32],
     [client_id |-> 1, amount |-> 20, product |-> TV, date_purchase |-> 60],
     [client_id |-> 2, amount |-> 10, product |-> TV, date_purchase |-> 32],
     [client_id |-> 2, amount |-> 30, product |-> Laptop, date_purchase |-> 367],
     [client_id |-> 3, amount |-> 10, product |-> Laptop, date_purchase |-> 60]}

\* Silver purchases, numbered in order
SilverPurchaseTables ==
    {[i \in 1..Len(t) |->
        [k \in DOMAIN t[i] \cup {"purchase_id"} |->
            IF k = "purchase_id" THEN i ELSE t[i][k]]] :
     t \in SeqsUpTo(SilverPurchaseRows, MaxFactPurchases)}

\* gold_aggregation_flow has been started on the silver objects
InitGoldFlow ==
    /\ bronze_clients = <<>>
    /\ bronze_purchases = <<>>
    /\ pc = "idle"
    /\ valid_client_ids = {}
    /\ df_clients_raw = NoTable
    /\ df_purchases_raw = NoTable
    /\ df_clients_clean = NoTable
    /\ clients_stats = NoStats
    /\ df_purchases_clean = NoTable
    /\ purchases_stats = NoStats
    /\ err = "none"
    /\ \E c \in SilverClientTables, p \in SilverPurchaseTables :
        silver = [EmptyBucket EXCEPT !.clients = Object(c),
                                     !.purchases = Object(p)]
    /\ fact_table = <<>>
    /\ gold_pc = "create_tables"
    /\ kpi_global = <<>>
    /\ client_behavior = <<>>
    /\ gold_err = "none"
    /\ agg_country = <<>>
    /\ agg_product = <<>>
    /\ agg_monthly = <<>>
    /\ spark_gold_pc = "idle"
    /\ product_stats = <<>>
    /\ monthly_sales = <<>>
    /\ SparkIdle
    /\ RestIdle

NextGoldFlow ==
    \/ GoldCreateTables
    \/ GoldKpiGlobal
    \/ GoldByCountry
    \/ GoldByProduct
    \/ GoldByDay
    \/ GoldByWeek
    \/ GoldByMonth
    \/ GoldByQuarter
    \/ GoldClientBehavior
    \/ GoldDistributions
    \/ GoldMatrix

SpecGoldFlow == InitGoldFlow /\ [][NextGoldFlow]_vars

----------------------------------------------------------------------------
(* Properties *)

Returned(task) == pc = task /\ err = "none"

UniqueCol(df, col) ==
    \A i, j \in 1..Len(df) : i # j => df[i][col] # df[j][col]

\* C1: the table returned by clean_clients_data has no two rows with the same
\* client_id and no two rows with the same email, and the table returned by
\* clean_purchases_data has no two rows with the same purchase_id.
C1_Uniqueness ==
    /\ Returned("check_final_clients") =>
          /\ UniqueCol(df_clients_clean, "client_id")
          /\ UniqueCol(df_clients_clean, "email")
    /\ Returned("check_final_purchases") =>
          UniqueCol(df_purchases_clean, "purchase_id")

\* Two clients survive a cleaning that removed a duplicate
C1_Witness ==
    /\ Returned("check_final_clients")
    /\ clients_stats.removed_duplicates >= 1
    /\ Len(df_clients_clean) = 2

\* C2: every row returned by clean_purchases_data has a client_id in
\* valid_client_ids, which in silver_transformation_flow is the client_id set of
\* the cleaned clients table that was saved: every saved purchase references a
\* saved client.
C2_ReferentialIntegrity ==
    /\ pc \in {"check_final_purchases", "save_purchases", "done"} =>
          \A i \in 1..Len(df_purchases_clean) :
              df_purchases_clean[i].client_id \in valid_client_ids
    /\ pc \in {"load_purchases", "check_initial_purchases", "clean_purchases",
               "check_final_purchases", "save_purchases", "done"} =>
          /\ silver.clients.present
          /\ valid_client_ids = {silver.clients.rows[i].client_id :
                                    i \in 1..Len(silver.clients.rows)}
    /\ silver.purchases.present =>
          \A i \in 1..Len(silver.purchases.rows) :
              \E j \in 1..Len(silver.clients.rows) :
                  silver.clients.rows[j].client_id
                      = silver.purchases.rows[i].client_id

\* A finished run that saved a purchase and dropped an orphan one
C2_Witness ==
    /\ pc = "done"
    /\ Len(silver.purchases.rows) >= 1
    /\ purchases_stats.removed_invalid_clients >= 1

\* C3: every row returned by clean_purchases_data has amount > 0.
C3_Positivity ==
    Returned("check_final_purchases") =>
        \A i \in 1..Len(df_purchases_clean) : df_purchases_clean[i].amount > 0

\* A row with a non-positive amount was dropped and another row was kept
C3_Witness ==
    /\ Returned("check_final_purchases")
    /\ purchases_stats.removed_invalid_amounts >= 1
    /\ Len(df_purchases_clean) >= 1

\* Q1 - 3*IQR <= amount <= Q3 + 3*IQR, the quartiles taken over the table df
InsideThreeIqr(amount, df) ==
    LET q1 == Quantile4(df, 1)
        q3 == Quantile4(df, 3)
    IN  /\ q1 - 3 * (q3 - q1) <= 4 * amount
        /\ 4 * amount <= q3 + 3 * (q3 - q1)

\* C4 as stated: every returned row lies within the 3*IQR bounds computed over
\* the returned table itself.
C4_BoundsOverCleanedTable ==
    Returned("check_final_purchases") =>
        \A i \in 1..Len(df_purchases_clean) :
            InsideThreeIqr(df_purchases_clean[i].amount, df_purchases_clean)

\* C4, amended: every returned row lies within the 3*IQR bounds computed over the
\* table that enters the outlier step (the rows left by steps 1 to 6).
C4_BoundsOverStepSevenInput ==
    Returned("check_final_purchases") =>
        \A i \in 1..Len(df_purchases_clean) :
            InsideThreeIqr(df_purchases_clean[i].amount,
                           PurchasesBeforeOutliers(df_purchases_raw, valid_client_ids))

\* The outlier step removed a row and kept others
C4_Witness ==
    /\ Returned("check_final_purchases")
    /\ purchases_stats.removed_outliers >= 1
    /\ Len(df_purchases_clean) >= 1

\* The scenario of C5: six purchases of client 1 on 2024-01-01 and 2024-01-10, and
\* a fact-table maximum of 2024-01-20
C5_Scenario ==
    /\ gold_pc = "client_behavior"
    /\ gold_err = "none"
    /\ fact_table = FactTable(6, 1, 10, 1, 20)

\* C5 as stated: in the scenario client 1 gets recency_days = 10,
\* customer_lifetime_days = 9 and client_segment = "Active".
C5_ScenarioActive ==
    C5_Scenario =>
        \A i \in 1..Len(client_behavior) :
            client_behavior[i].client_id = 1 =>
                /\ client_behavior[i].recency_days = 10
                /\ client_behavior[i].customer_lifetime_days = 9
                /\ client_behavior[i].client_segment = "Active"

\* C5, amended: in the scenario client 1 gets recency_days = 10,
\* customer_lifetime_days = 9 and client_segment = "VIP".
C5_ScenarioVip ==
    C5_Scenario =>
        \E i \in 1..Len(client_behavior) :
            /\ client_behavior[i].client_id = 1
            /\ client_behavior[i].total_purchases = 6
            /\ client_behavior[i].recency_days = 10
            /\ client_behavior[i].customer_lifetime_days = 9
            /\ client_behavior[i].client_segment = "VIP"

C5_Witness == C5_Scenario /\ Len(client_behavior) = 2

\* The label the segmentation rule gives, first match first
RuleSegment(recency, purchases) ==
    CASE recency <= 30 /\ purchases >= 5 -> "VIP"
      [] ~(recency <= 30 /\ purchases >= 5) /\ recency <= 90 /\ purchases >= 3
            -> "Active"
      [] ~(recency <= 30 /\ purchases >= 5) /\ ~(recency <= 90 /\ purchases >= 3)
            /\ recency <= 180 -> "At Risk"
      [] OTHER -> "Inactive"

\* C6: aggregate_client_behavior gives every client of the fact table one row, with
\* one label of {VIP, Active, At Risk, Inactive}: the first match of the rule.
C6_Segmentation ==
    gold_pc = "client_behavior" /\ gold_err = "none" =>
        /\ \A k \in 1..Len(fact_table) :
              Cardinality({i \in 1..Len(client_behavior) :
                  client_behavior[i].client_id = fact_table[k].client_id}) = 1
        /\ \A i \in 1..Len(client_behavior) :
              /\ client_behavior[i].client_segment
                     \in {"VIP", "Active", "At Risk", "Inactive"}
              /\ client_behavior[i].client_segment
                     = RuleSegment(client_behavior[i].recency_days,
                                   client_behavior[i].total_purchases)

\* A client with enough purchases for VIP whose recency of 31 days makes it Active
C6_Witness ==
    /\ gold_pc = "client_behavior"
    /\ \E i \in 1..Len(client_behavior) :
          /\ client_behavior[i].total_purchases >= 5
          /\ client_behavior[i].recency_days = 31
          /\ client_behavior[i].client_segment = "Active"

\* C7 as stated: clean_clients_data and clean_purchases_data never raise, on an
\* unparsable value or on a table with zero rows.
C7_CleaningNeverRaises ==
    pc \in {"check_final_clients", "check_final_purchases", "failed"} => err = "none"

\* C8 as stated: on a fact table with zero rows no gold aggregation task raises.
C8_EmptyFactNeverRaises ==
    fact_table = <<>> /\ gold_pc # "ready" => gold_err = "none"

\* C9 as stated: initial_rows = final_rows + the sum of the removed_* counters.
C9_EveryRemovalCounted ==
    /\ Returned("check_final_clients") =>
          clients_stats.initial_rows
              = clients_stats.final_rows
                + clients_stats.removed_null_critical
                + clients_stats.removed_invalid_dates
                + clients_stats.removed_invalid_emails
                + clients_stats.removed_duplicates
    /\ Returned("check_final_purchases") =>
          purchases_stats.initial_rows
              = purchases_stats.final_rows
                + purchases_stats.removed_null_critical
                + purchases_stats.removed_invalid_dates
                + purchases_stats.removed_invalid_amounts
                + purchases_stats.removed_invalid_clients
                + purchases_stats.removed_outliers
                + purchases_stats.removed_duplicates

\* A raw client row that passes the null, date and email checks
PassesClientChecks(r) ==
    /\ r.client_id.kind = "num"
    /\ r.email.kind = "str"
    /\ r.date_inscription.kind = "date"
    /\ r.date_inscription.int <= Today
    /\ EmailMatch(NormalizeEmail(r.email))

\* C10: for every client_id of the output of clean_clients_data, the surviving row
\* is the earliest input row with that client_id among the rows that passed the
\* null, date and email checks.
C10_FirstOccurrenceKept ==
    Returned("check_final_clients") =>
        \A k \in 1..Len(df_clients_clean) :
            \E i \in 1..Len(df_clients_raw) :
                /\ PassesClientChecks(df_clients_raw[i])
                /\ df_clients_raw[i].client_id.int = df_clients_clean[k].client_id
                /\ NormalizeEmail(df_clients_raw[i].email) = df_clients_clean[k].email
                /\ \A j \in 1..(i - 1) :
                      PassesClientChecks(df_clients_raw[j]) =>
                          df_clients_raw[j].client_id.int
                              # df_clients_clean[k].client_id

\* Ids 1 and 1 with a@x.com then dup@x.com give one row, with a@x.com
C10_Witness ==
    /\ Returned("check_final_clients")
    /\ Len(df_clients_raw) = 2
    /\ df_clients_raw[1].client_id = Num(1, 0)
    /\ df_clients_raw[2].client_id = Num(1, 0)
    /\ df_clients_raw[1].email = Str(E_a)
    /\ df_clients_raw[2].email = Str(E_dup)
    /\ Len(df_clients_clean) = 1
    /\ df_clients_clean[1].email = E_a

\* Equality of two numbers given as pairs [num, den], neither of them NaN
RatEq(a, b) == a.den # 0 /\ b.den # 0 /\ a.num * b.den = b.num * a.den

\* C16 as stated: on the same cleaned purchases, build_product_stats and
\* aggregate_by_product give every product the same revenue, mean amount and
\* number of sales, and build_monthly_sales and aggregate_by_time_monthly give
\* every month the same revenue, mean amount and number of purchases.
C16_SparkEqualsPandas ==
    /\ gold_pc = "agg_by_product" /\ spark_gold_pc = "product_stats" =>
          /\ Len(product_stats) = Len(agg_product)
          /\ \A i \in 1..Len(product_stats) : \E j \in 1..Len(agg_product) :
                /\ agg_product[j].product = product_stats[i].product
                /\ RatEq(product_stats[i].chiffre_affaires,
                         [num |-> agg_product[j].total_revenue, den |-> 1])
                /\ RatEq(product_stats[i].prix_moyen, agg_product[j].avg_price)
                /\ product_stats[i].nb_ventes = agg_product[j].total_sales
    /\ gold_pc = "agg_by_month" /\ spark_gold_pc = "monthly_sales" =>
          /\ Len(monthly_sales) = Len(agg_monthly)
          /\ \A i \in 1..Len(monthly_sales) :
                /\ agg_monthly[i].year_month = monthly_sales[i].mois
                /\ RatEq(monthly_sales[i].chiffre_affaires,
                         [num |-> agg_monthly[i].monthly_revenue, den |-> 1])
                /\ RatEq(monthly_sales[i].panier_moyen,
                         agg_monthly[i].avg_transaction_value)
                /\ monthly_sales[i].nb_achats = agg_monthly[i].monthly_transactions

\* The sum of the revenue_share_pct column, as a pair [num, den]
RECURSIVE ShareSum(_)
ShareSum(rows) ==
    IF rows = <<>> THEN [num |-> 0, den |-> 1]
    ELSE LET h == Head(rows).revenue_share_pct
             t == ShareSum(Tail(rows))
         IN  [num |-> h.num * t.den + t.num * h.den, den |-> h.den * t.den]

StrLess(a, b) == a # b /\ StrLeq(a, b)

\* C19: the rows of aggregate_by_time_monthly are in ascending order of
\* year_month; the three growth columns of the first row are NaN, and in every
\* later row growth = (value - previous value) / previous value * 100;
\* cumulative_revenue is the running sum of monthly_revenue; monthly revenues
\* [100, 150] give growths [NaN, 50] and cumulative revenues [100, 250].
C19_MonthlyGrowthAndCumulative ==
    gold_pc = "agg_by_month" =>
        LET m == agg_monthly
        IN  /\ \A i \in 1..(Len(m) - 1) : StrLess(m[i].year_month, m[i + 1].year_month)
            /\ \A k \in 1..Len(fact_table) : \E i \in 1..Len(m) :
                  m[i].year_month = fact_table[k].year_month
            /\ Len(m) >= 1 =>
                  /\ m[1].revenue_mom_growth_pct.den = 0
                  /\ m[1].transactions_mom_growth_pct.den = 0
                  /\ m[1].clients_mom_growth_pct.den = 0
                  /\ m[1].cumulative_revenue = m[1].monthly_revenue
            /\ \A i \in 2..Len(m) :
                  /\ RatEq(m[i].revenue_mom_growth_pct,
                           [num |-> (m[i].monthly_revenue - m[i - 1].monthly_revenue)
                                        * 100,
                            den |-> m[i - 1].monthly_revenue])
                  /\ RatEq(m[i].transactions_mom_growth_pct,
                           [num |-> (m[i].monthly_transactions
                                        - m[i - 1].monthly_transactions) * 100,
                            den |-> m[i - 1].monthly_transactions])
                  /\ RatEq(m[i].clients_mom_growth_pct,
                           [num |-> (m[i].monthly_unique_clients
                                        - m[i - 1].monthly_unique_clients) * 100,
                            den |-> m[i - 1].monthly_unique_clients])
                  /\ m[i].cumulative_revenue
                         = m[i - 1].cumulative_revenue + m[i].monthly_revenue
            /\ (Len(m) = 2 /\ m[1].monthly_revenue = 100
                    /\ m[2].monthly_revenue = 150) =>
                  /\ RatEq(m[2].revenue_mom_growth_pct, [num |-> 50, den |-> 1])
                  /\ m[1].cumulative_revenue = 100
                  /\ m[2].cumulative_revenue = 250

\* The example: 100 in January 2024 and 150 in February 2024
C19_Witness ==
    /\ gold_pc = "agg_by_month"
    /\ Len(agg_monthly) = 2
    /\ agg_monthly[1].monthly_revenue = 100
    /\ agg_monthly[2].monthly_revenue = 150
    /\ agg_monthly[2].cumulative_revenue = 250

\* C20: on a fact table of cleaned purchases (every amount > 0),
\* cumulative_revenue never decreases along the rows of aggregate_by_time_monthly.
C20_CumulativeNonDecreasing ==
    gold_pc = "agg_by_month" /\ (\A k \in 1..Len(fact_table) : fact_table[k].amount > 0)
        => \A i, j \in 1..Len(agg_monthly) :
              i < j => agg_monthly[i].cumulative_revenue
                           <= agg_monthly[j].cumulative_revenue

\* Three months, the revenue of the last one lower than that of the first two
C20_Witness ==
    /\ gold_pc = "agg_by_month"
    /\ Len(agg_monthly) = 3
    /\ agg_monthly[3].monthly_revenue < agg_monthly[1].monthly_revenue
    /\ agg_monthly[3].monthly_revenue < agg_monthly[2].monthly_revenue

\* The counters of a stats record
Counters(stats) == [k \in (DOMAIN stats) \ {"data_loss_percentage"} |-> stats[k]]

\* C17 as stated: on every raw table the Spark cleaning function returns the rows
\* and the stats counters that the pandas cleaning function returns.
C17_SparkCleansLikePandas ==
    /\ spark_pc = "check_final_clients" /\ pc \in {"check_final_clients", "failed"} =>
          /\ err = "none"
          /\ spark_clients_clean = df_clients_clean
          /\ Counters(spark_clients_stats) = Counters(clients_stats)
    /\ spark_pc = "check_final_purchases"
          /\ pc \in {"check_final_purchases", "failed"} =>
          /\ err = "none"
          /\ spark_purchases_clean = df_purchases_clean
          /\ Counters(spark_purchases_stats) = Counters(purchases_stats)

\* C17, the part on duplicates alone: when pandas returns, Spark returns the same
\* client rows.
C17_SameClientRows ==
    spark_pc = "check_final_clients" /\ Returned("check_final_clients") =>
        spark_clients_clean = df_clients_clean

\* C17, the part on outliers alone: when pandas returns, Spark returns the same
\* purchase rows.
C17_SamePurchaseRows ==
    spark_pc = "check_final_purchases" /\ Returned("check_final_purchases") =>
        spark_purchases_clean = df_purchases_clean

\* C11 as stated: when silver_transformation_flow has failed at a task, no object
\* of the run is in the silver bucket.
C11_FailedStageWroteNothing ==
    pc = "failed" => ~silver.clients.present /\ ~silver.purchases.present

\* C14: a table is in the silver bucket only when quality_check_final found no
\* duplicated row in it, and once quality_check_final has raised on a table,
\* neither that table nor the one after it is saved.
C14_SavedOnlyAfterFinalCheck ==
    /\ silver.clients.present =>
          /\ Duplicated(silver.clients.rows) = 0
          /\ silver.clients.rows = df_clients_clean
          /\ pc \notin {"check_final_clients", "save_clients"}
    /\ silver.purchases.present =>
          /\ Duplicated(silver.purchases.rows) = 0
          /\ silver.purchases.rows = df_purchases_clean
          /\ pc = "done"
    /\ Duplicated(df_clients_clean) > 0 =>
          ~silver.clients.present /\ ~silver.purchases.present
    /\ Duplicated(df_purchases_clean) > 0 => ~silver.purchases.present
    /\ err = "AssertionError" => pc = "failed"

\* quality_check_final raised on a purchases table with a duplicated row, after
\* the clients table had been saved
C14_Witness ==
    /\ pc = "failed"
    /\ err = "AssertionError"
    /\ Duplicated(df_purchases_clean) = 1
    /\ silver.clients.present
    /\ ~silver.purchases.present


\* The silver objects that a gold stage reads, written by the silver stage of its
\* engine in this run
SilverWrote(stage) ==
    IF stage = "silver_pandas"
    THEN pc = "done" /\ silver.clients.present /\ silver.purchases.present
    ELSE /\ spark_pc = "done"
         /\ silver.clients_spark.present
         /\ silver.purchases_spark.present

\* C12: main starts a gold stage only after the silver stage of the same engine
\* has succeeded and written the objects that the gold stage reads, for the pandas
\* pair and for the Spark pair
C12_GoldAfterOwnSilver ==
    /\ HasStarted("gold_pandas") =>
          /\ HasStarted("silver_pandas")
          /\ "silver_pandas" \notin failed
          /\ SilverWrote("silver_pandas")
    /\ HasStarted("gold_spark") =>
          /\ HasStarted("silver_spark")
          /\ "silver_spark" \notin failed
          /\ SilverWrote("silver_spark")

\* The pandas half of C12 alone
C12_PandasGoldAfterPandasSilver ==
    HasStarted("gold_pandas") =>
        /\ HasStarted("silver_pandas")
        /\ "silver_pandas" \notin failed
        /\ SilverWrote("silver_pandas")

\* C13 as stated: the failure of any stage, of either engine, aborts the run; a
\* stage that failed is the last one that main started
C13_AnyFailureAborts ==
    \A i \in 1..Len(started) : started[i] \in failed => i = Len(started)

\* C13, amended: the failure of data generation, of bronze, of pandas silver or of
\* pandas gold aborts the run, and no later stage is started; after the failure
\* of a Spark stage main goes on with the stages that follow, and main exits
\* early for no other reason than the failure of a stage that is not a Spark one
C13_NonSparkFailureAborts ==
    /\ \A i \in 1..Len(started) :
          started[i] \in failed \ SparkStages =>
              i = Len(started) /\ main_pc = "exited"
    /\ main_pc = "exited" => failed \ SparkStages # {}
    /\ \A stage \in failed \cap SparkStages :
          \/ main_pc = "summary"
          \/ main_pc = "exited"
          \/ /\ main_pc \notin {"summary", "exited"}
             /\ StageIndex(main_pc) > StageIndex(stage)

\* The Spark silver stage failed and main went on to the end of the run
C13_Witness ==
    /\ "silver_spark" \in failed
    /\ HasStarted("gold_pandas")
    /\ HasStarted("gold_spark")
    /\ main_pc = "summary"


\* The flow has run twice in a row and its second run has ended
TwiceInARow(flow) ==
    /\ NoFlowRunning
    /\ Len(runs) >= 2
    /\ runs[Len(runs)] = flow
    /\ runs[Len(runs) - 1] = flow

\* The records of the documents of a data collection, without the generated ids
Records(docs) == [i \in 1..Len(docs) |-> docs[i].row]

\* The same rows, each as many times, in whatever order
SameRows(a, b) ==
    /\ Len(a) = Len(b)
    /\ \A i \in 1..Len(a) :
          Cardinality({j \in 1..Len(a) : a[j] = a[i]})
              = Cardinality({j \in 1..Len(b) : b[j] = a[i]})

\* The gold objects whose rows of equal revenue or spending an unstable sort orders
TiesUnordered == {"agg_by_country", "agg_by_product", "client_behavior_rfm"}

SameObjects(a, b) ==
    \A n \in DOMAIN a :
        /\ a[n].present = b[n].present
        /\ IF n \in TiesUnordered THEN SameRows(a[n].rows, b[n].rows)
           ELSE a[n].rows = b[n].rows

DataCollections == {"clients", "products", "monthly_sales"}

SameData(a, b) == \A c \in DataCollections : Records(a[c]) = Records(b[c])

\* What a metadata document says of the data loaded, leaving out what it says
\* of the run itself: last_refresh and the durations
LoadedPart(doc) ==
    [id |-> doc.id,
     total_records_loaded |-> doc.total_records_loaded,
     collections_refreshed |-> doc.collections_refreshed,
     counts |-> [i \in 1..Len(doc.details) |-> doc.details[i].count]]

\* C15 as stated: after the silver flow, the gold flow or the MongoDB flow has run
\* twice in a row on unchanged inputs, its target store holds the same objects
\* or documents, with the same contents, as after the first of the two runs
C15_SecondRunChangesNothing ==
    /\ TwiceInARow("silver") => silver = prev.silver
    /\ TwiceInARow("gold") => SameObjects(gold, prev.gold)
    /\ TwiceInARow("mongo") =>
          /\ SameData(mongo, prev.mongo)
          /\ mongo.metadata = prev.mongo.metadata

\* C15, amended: a run replaces every object and collection that it writes, as a
\* whole, and appends to none; after two runs in a row on unchanged inputs the
\* target store holds the same objects and collections with the same rows as
\* after the first, except for what a run records of itself: the last_refresh and
\* the durations of the refresh_info document (and the generated ids)
C15_SecondRunReplaces ==
    /\ TwiceInARow("silver") => silver = prev.silver
    /\ TwiceInARow("gold") => SameObjects(gold, prev.gold)
    /\ TwiceInARow("mongo") =>
          /\ SameData(mongo, prev.mongo)
          /\ Len(mongo.metadata) = Len(prev.mongo.metadata)
          /\ \A i \in 1..Len(mongo.metadata) :
                LoadedPart(mongo.metadata[i]) = LoadedPart(prev.mongo.metadata[i])
    /\ pc = "done" =>
          /\ silver.clients = Object(df_clients_clean)
          /\ silver.purchases = Object(df_purchases_clean)
    /\ gold_pc = "done" =>
          /\ gold["fact_purchases"] = Object(fact_table)
          /\ gold["agg_by_country"] = Object(agg_country)
          /\ gold["agg_by_product"] = Object(agg_product)
          /\ gold["agg_by_month"] = Object(agg_monthly)
          /\ gold["client_behavior_rfm"] = Object(client_behavior)
    /\ mongo_pc = "done" =>
          /\ Records(mongo.clients) = gold["gold_client_summary"].rows
          /\ Records(mongo.products) = gold["gold_product_stats"].rows
          /\ Records(mongo.monthly_sales) = gold["gold_monthly_sales"].rows
          /\ Len(mongo.metadata) = 1

\* The MongoDB flow has loaded two clients twice in a row
C15_Witness ==
    /\ TwiceInARow("mongo")
    /\ mongo_pc = "done"
    /\ Len(mongo.clients) = 2
    /\ prev.mongo.metadata # <<>>

\* The gold flow, and the silver flow, have run to their end twice in a row
C15_GoldTwice == ~(TwiceInARow("gold") /\ gold_pc = "done")
C15_SilverTwice == ~(TwiceInARow("silver") /\ pc = "done")

----------------------------------------------------------------------------
\* A run of the MongoDB ingestion flow has ended and no other flow was started since
MongoRunEnded ==
    /\ runs # <<>>
    /\ runs[Len(runs)] = "mongo"
    /\ mongo_pc \in {"done", "failed"}

\* The rows of the gold object that a collection is loaded from
LoadSource ==
    [clients |-> "gold_client_summary",
     products |-> "gold_product_stats",
     monthly_sales |-> "gold_monthly_sales"]

\* The one metadata document counts the documents of the three collections, and
\* each collection holds the rows of its gold object and no other
MetadataMatchesLoad ==
    /\ Len(mongo.metadata) = 1
    /\ mongo.metadata[1].id = "refresh_info"
    /\ mongo.metadata[1].total_records_loaded =
           Len(mongo.clients) + Len(mongo.products) + Len(mongo.monthly_sales)
    /\ \A c \in DataCollections :
           /\ gold[LoadSource[c]].present
           /\ Records(mongo[c]) = gold[LoadSource[c]].rows

\* C21: after any number of runs of mongodb_ingestion_flow the metadata collection
\* holds exactly one document, refresh_info, whose total_records_loaded is the sum
\* of the numbers of documents that the latest run left in clients, products and
\* monthly_sales, each of which holds only the rows of the latest load.
C21_MetadataMatchesLatestLoad == MongoRunEnded => MetadataMatchesLoad

\* The same after the runs in which no task has raised
C21_AfterSuccessfulRun ==
    (MongoRunEnded /\ mongo_pc = "done") => MetadataMatchesLoad

\* Reached: a second run of the flow in a row has ended without raising
C21_SuccessfulRunReached ==
    ~(MongoRunEnded /\ mongo_pc = "done" /\ TwiceInARow("mongo")
        /\ Len(mongo.clients) = 2)

----------------------------------------------------------------------------
\* A task of the flow run in progress has been started
TaskStarted == task_run.state \in {"Running", "AwaitingRetry", "Failed"}

\* C22: retries apply only at the I/O boundary and are bounded: a task that reads
\* or writes the blob store or the database is retried at most 2 times and then
\* fails its stage, and a task of pure transformation (cleaning, quality checks,
\* aggregation) is never run again after it has failed.
C22_RetriesOnlyAtIoBoundary ==
    TaskStarted =>
        /\ task_run.attempt - 1 <= 2
        /\ task_run.attempt > 1 => CurrentTask \in IoTasks
        /\ CurrentTask \notin IoTasks =>
               /\ task_run.attempt = 1
               /\ task_run.state # "AwaitingRetry"
        /\ task_run.state = "Failed" =>
               task_run.attempt = 1 + Retries[CurrentTask]

\* Reached: the third run of save_to_gold after an aggregation has raised and the
\* gold flow has failed with it
C22_Witness ==
    /\ task_run.flow = "gold"
    /\ task_run.call > 8
    /\ CurrentTask = "save_to_gold"
    /\ task_run.attempt = 3
    /\ task_run.state = "Failed"

\* Reached: a transformation has raised at its first run and the flow has failed
C22_TransformationFails ==
    ~(task_run.state = "Failed" /\ CurrentTask = "clean_purchases_data"
        /\ task_run.attempt = 1)

----------------------------------------------------------------------------
\* rows are in descending order of total_revenue
RevenueDescending(rows) ==
    \A i, j \in 1..Len(rows) :
        i < j => rows[i].total_revenue >= rows[j].total_revenue

\* rows of equal total_revenue are in ascending order of their group key
TiesInKeyOrder(rows, key) ==
    \A i, j \in 1..Len(rows) :
        (i < j /\ rows[i].total_revenue = rows[j].total_revenue)
            => StrLess(rows[i][key], rows[j][key])

\* C23: the results of aggregate_by_country and aggregate_by_product are sorted by
\* total_revenue descending, and the sort is stable: two groups of equal
\* total_revenue keep the relative order of the group-by result (ascending key).
C23_StableRevenueSort ==
    /\ gold_pc = "agg_by_country" =>
           /\ RevenueDescending(agg_country)
           /\ TiesInKeyOrder(agg_country, "country")
    /\ gold_pc = "agg_by_product" =>
           /\ RevenueDescending(agg_product)
           /\ TiesInKeyOrder(agg_product, "product")

\* The order alone: descending total_revenue
C23_RevenueDescending ==
    /\ gold_pc = "agg_by_country" => RevenueDescending(agg_country)
    /\ gold_pc = "agg_by_product" => RevenueDescending(agg_product)

----------------------------------------------------------------------------
\* The gold flow has built its tables from the silver objects
FactCreated ==
    /\ gold_pc \notin {"idle", "create_tables"}
    /\ gold["fact_purchases"].present

\* The clients of the silver object with the client_id of purchase p
Matches(p) ==
    SelectSeq(silver.clients.rows, LAMBDA c : c.client_id = p.client_id)

\* Fact row f is purchase p with the attributes of its client, or null ones
FactRowOf(f, p) ==
    /\ \A k \in DOMAIN p : f[k] = p[k]
    /\ \A k \in DOMAIN NoClient :
           f[k] = IF Matches(p) = <<>> THEN NoClient[k] ELSE Matches(p)[1][k]

\* C24: given a clients table of unique client_id, create_fact_purchases returns
\* exactly one fact row per purchase row, in the same order, also for the
\* purchases whose client_id matches no client (their client attributes are
\* null): there are as many fact rows as purchase rows.
C24_OneFactRowPerPurchase ==
    (FactCreated /\ UniqueCol(silver.clients.rows, "client_id")) =>
        /\ Len(fact_table) = Len(silver.purchases.rows)
        /\ gold["fact_purchases"].rows = fact_table
        /\ \A i \in 1..Len(fact_table) :
               FactRowOf(fact_table[i], silver.purchases.rows[i])

\* Reached: a fact table of three rows, the second of a client that the clients
\* object does not hold, between two of clients that it holds
C24_Witness ==
    /\ FactCreated
    /\ Len(fact_table) = 3
    /\ Len(silver.clients.rows) = 2
    /\ Matches(silver.purchases.rows[1]) # <<>>
    /\ Matches(silver.purchases.rows[2]) = <<>>
    /\ Matches(silver.purchases.rows[3]) # <<>>

----------------------------------------------------------------------------
\* aggregate_client_behavior has returned its rows for the fact table
BehaviorBuilt ==
    /\ gold_pc \in {"distributions", "matrix", "done"}
    /\ client_behavior # <<>>

\* The latest date_purchase of the fact table
LatestPurchase == Max({fact_table[i].date_purchase : i \in 1..Len(fact_table)})

\* C25: in every row of aggregate_client_behavior recency_days is counted from the
\* latest purchase date of the whole fact table (not from the wall clock), so
\* recency_days >= 0 and some client has recency_days = 0; customer_lifetime_days
\* >= 0; and purchase_frequency = total_purchases / (customer_lifetime_days + 1)
\* has a denominator >= 1, also for a client of a single purchase.
C25_RecencyAndFrequency ==
    BehaviorBuilt =>
        /\ \A i \in 1..Len(client_behavior) :
            LET r == client_behavior[i]
            IN  /\ r.recency_days = LatestPurchase - r.last_purchase_date
                /\ r.recency_days >= 0
                /\ r.customer_lifetime_days >= 0
                /\ r.purchase_frequency.den = r.customer_lifetime_days + 1
                /\ r.purchase_frequency.den >= 1
                /\ r.purchase_frequency.num = r.total_purchases
        /\ \E i \in 1..Len(client_behavior) : client_behavior[i].recency_days = 0

\* Reached: a client of a single purchase, which is not the latest of the table,
\* next to a client of two purchases on different days
C25_Witness ==
    /\ BehaviorBuilt
    /\ \E i, j \in 1..Len(client_behavior) :
        /\ client_behavior[i].total_purchases = 1
        /\ client_behavior[i].customer_lifetime_days = 0
        /\ client_behavior[i].recency_days > 0
        /\ client_behavior[j].total_purchases = 2
        /\ client_behavior[j].customer_lifetime_days > 0

----------------------------------------------------------------------------
\* C26: the assertion of quality_check_final (no two rows equal in every column)
\* never fails on a table returned by clean_clients_data or clean_purchases_data:
\* for every raw input the cleaned table holds no two equal rows, so
\* silver_transformation_flow never aborts on this assertion.
C26_FinalCheckNeverFails ==
    /\ Returned("check_final_clients") => Duplicated(df_clients_clean) = 0
    /\ Returned("check_final_purchases") => Duplicated(df_purchases_clean) = 0
    /\ err # "AssertionError"

\* Reached: the flow has passed both final checks, the second on purchases that the
\* cleaning had to rid of a repeated purchase_id
C26_Witness ==
    /\ pc \in {"save_purchases", "done"}
    /\ err = "none"
    /\ purchases_stats.removed_duplicates >= 1
    /\ Len(df_purchases_clean) >= 1

----------------------------------------------------------------------------
\* The table that entered step 7 of the clean_purchases_data that has returned
EnteredOutlierStep == PurchasesBeforeOutliers(df_purchases_raw, valid_client_ids)

\* Row r of the table df lies between its quartiles Q1 and Q3
BetweenQuartiles(r, df) ==
    /\ ~HasInf(df)
    /\ Quantile4(df, 1) <= 4 * r.amount
    /\ 4 * r.amount <= Quantile4(df, 3)

\* At least one row survives step 7, and so does every row between Q1 and Q3
OutlierStepKeepsRows ==
    /\ purchases_stats.removed_outliers < Len(EnteredOutlierStep)
    /\ \A i \in 1..Len(EnteredOutlierStep) :
           BetweenQuartiles(EnteredOutlierStep[i], EnteredOutlierStep) =>
               \E j \in 1..Len(df_purchases_clean) :
                   df_purchases_clean[j] = EnteredOutlierStep[i]

\* C27: the outlier step of clean_purchases_data never empties a non-empty table:
\* whenever at least one row reaches step 7 at least one row survives it, and
\* every row whose amount lies between Q1 and Q3 (of the table entering step 7)
\* survives, also when IQR = 0 and the bounds collapse to Q1 = Q3.
C27_OutlierStepKeepsRows ==
    (Returned("check_final_purchases") /\ EnteredOutlierStep # <<>>)
        => OutlierStepKeepsRows

\* The same on the tables of finite amounts
C27_FiniteAmounts ==
    (Returned("check_final_purchases") /\ EnteredOutlierStep # <<>>
        /\ ~HasInf(EnteredOutlierStep))
        => OutlierStepKeepsRows

\* Reached: four equal finite amounts (IQR = 0), all kept
C27_ZeroIqrReached ==
    ~(/\ Returned("check_final_purchases")
      /\ Len(EnteredOutlierStep) = 4
      /\ \A i \in 1..4 : EnteredOutlierStep[i].amount = 10
      /\ Len(df_purchases_clean) = 4)

----------------------------------------------------------------------------
\* The sum of a sequence of numbers
RECURSIVE SumSeq(_)
SumSeq(q) == IF q = <<>> THEN 0 ELSE Head(q) + SumSeq(Tail(q))

\* The sum of all the cells of a country-product matrix
SumCells(matrix) == SumSeq([i \in 1..Len(matrix) |-> SumSeq(matrix[i].revenue)])

\* Every fact row has a country and a product
AllAttributed ==
    \A i \in 1..Len(fact_table) :
        fact_table[i].country # NaNStr /\ fact_table[i].product # NaNStr

\* The gold flow has saved all its views of the fact table
ViewsSaved == gold_pc = "done"

\* C28: revenue is conserved across the gold views: for a fact table in which
\* every row has a country and a product, the total_revenue of aggregate_by_country,
\* the total_revenue of aggregate_by_product, the monthly_revenue of
\* aggregate_by_time_monthly and the cells of aggregate_country_product_matrix each
\* sum to the "Total Revenue" of aggregate_kpi_global, and the transaction counts
\* of the country, product and monthly views each sum to the number of fact rows.
C28_RevenueConserved ==
    (ViewsSaved /\ AllAttributed) =>
        LET total == gold["kpi_global"].rows[1]
        IN  /\ total = SumAmount(fact_table)
            /\ SumCol(gold["agg_by_country"].rows, "total_revenue") = total
            /\ SumCol(gold["agg_by_product"].rows, "total_revenue") = total
            /\ SumCol(gold["agg_by_month"].rows, "monthly_revenue") = total
            /\ SumCells(gold["matrix_country_product"].rows) = total
            /\ SumCol(gold["agg_by_country"].rows, "total_transactions")
                   = Len(fact_table)
            /\ SumCol(gold["agg_by_product"].rows, "total_sales") = Len(fact_table)
            /\ SumCol(gold["agg_by_month"].rows, "monthly_transactions")
                   = Len(fact_table)

\* Reached: the views of three purchases of two countries, two products and two
\* months, of different amounts
C28_Witness ==
    /\ ViewsSaved
    /\ AllAttributed
    /\ Len(fact_table) = 3
    /\ Len(gold["agg_by_country"].rows) = 2
    /\ Len(gold["agg_by_product"].rows) = 2
    /\ Len(gold["agg_by_month"].rows) = 2
    /\ gold["kpi_global"].rows[1] = 60

\* Reached: a purchase of no known client, which the country view leaves out
C28_UnattributedReached ==
    ~(/\ ViewsSaved
      /\ ~AllAttributed
      /\ SumCol(gold["agg_by_country"].rows, "total_revenue")
             < gold["kpi_global"].rows[1])

----------------------------------------------------------------------------
\* The objects of the gold bucket that mongodb_ingestion_flow reads
MongoInputObjects ==
    {"gold_client_summary", "gold_product_stats", "gold_monthly_sales"}

\* main has run every stage, from an empty store, and none has failed
AllStagesSucceeded == main_pc = "summary" /\ failed = {}

\* C29: every object that mongodb_ingestion_flow reads from the gold bucket
\* (gold_client_summary.parquet, gold_product_stats.parquet,
\* gold_monthly_sales.parquet) is written by a gold flow of this repository:
\* starting from an empty store, after a successful silver and gold stage (pandas
\* or Spark) the publishing flow finds its three input objects.
C29_MongoInputsWritten ==
    AllStagesSucceeded => \A o \in MongoInputObjects : gold[o].present

\* No run writes any of the three objects
C29_NeverWritten == \A o \in MongoInputObjects : ~gold[o].present

\* Reached: all the stages have succeeded and the gold bucket holds the objects of
\* both gold flows
C29_BothGoldFlowsReached ==
    ~(/\ AllStagesSucceeded
      /\ gold["agg_by_month"].present
      /\ gold["gold_monthly_sales_spark"].present)

----------------------------------------------------------------------------
\* The objects that the Spark flows write, in the silver and in the gold bucket
SparkSilverObjects == {"clients_spark", "purchases_spark"}
SparkGoldObjects ==
    {"gold_client_summary_spark", "gold_product_stats_spark",
     "gold_monthly_sales_spark"}

\* The objects that the pandas flows write
PandasSilverObjects == {"clients", "purchases"}
PandasGoldObjects ==
    {"fact_purchases", "dim_clients", "dim_products", "kpi_global",
     "agg_by_country", "agg_by_product", "agg_by_day", "agg_by_week",
     "agg_by_month", "agg_by_quarter", "client_behavior_rfm",
     "statistical_distributions", "matrix_country_product"}

\* A step of a Spark flow, a step of a pandas flow
SparkStep == spark_pc' # spark_pc \/ spark_gold_pc' # spark_gold_pc
PandasStep == pc' # pc \/ gold_pc' # gold_pc

\* The step leaves these objects as they are
Untouched(silver_objects, gold_objects) ==
    /\ \A o \in silver_objects : silver'[o] = silver[o]
    /\ \A o \in gold_objects : gold'[o] = gold[o]

\* C30: the two engines never overwrite each other's outputs: the Spark silver flow
\* writes only clients_spark.parquet and purchases_spark.parquet and the Spark gold
\* flow only gold_*_spark.parquet objects, leaving every object of the pandas
\* flows unchanged, and the pandas flows leave every *_spark object unchanged.
C30_EnginesKeepApart ==
    [][/\ SparkStep =>
            Untouched(DOMAIN silver \ SparkSilverObjects,
                      DOMAIN gold \ SparkGoldObjects)
       /\ PandasStep =>
            Untouched(DOMAIN silver \ PandasSilverObjects,
                      DOMAIN gold \ PandasGoldObjects)]_vars

\* Reached: the four flows have written their objects, the Spark ones after the
\* pandas ones of the same bucket
C30_Witness ==
    /\ main_pc = "summary"
    /\ \A o \in DOMAIN silver : silver[o].present
    /\ \A o \in PandasGoldObjects \cup SparkGoldObjects : gold[o].present

====
